---- MODULE Spec2Model ----
(***************************************************************************)
(* Hercules: XIAO nRF52840 dashboards (BLE / USB serial -> Streamlit).     *)
(*                                                                         *)
(* The module holds eleven specifications over one set of variables:       *)
(*   SpecFramer  the CR/LF line framer of handle_notify / reader_thread_fn *)
(*   SpecLink    the framer of a BLE reader thread across reconnects       *)
(*   SpecPipe    the relay channel q_parsed, the ring and the accumulator  *)
(*   SpecReader  one reader thread (BLE or serial) from start to end       *)
(*   Spec        the BLE reader threads and the Streamlit consumer         *)
(*   SpecLED     the BLE LED controller (BLEManager) and its device        *)
(*   SpecDecode  the record decoders of the dashboards                     *)
(*   SpecPing    the liveness probe try_ping of the USB LED controllers    *)
(*   SpecSense   Test_BLE_Sense.py: its notify callback and its script     *)
(*   SpecCmd     send_cmd of the USB LED controllers, with the BLEManager  *)
(*   SpecLive    xiao_usb_live.py: its reader, its script and its log      *)
(* FairReader, FairSpec and FairStop add the scheduling assumptions.       *)
(* Each specification leaves the variables of the other parts unchanged.   *)
(***************************************************************************)
EXTENDS Integers, Sequences, FiniteSets, TLC

(***************************************************************************)
(* Bounds of the model.                                                    *)
(***************************************************************************)
MaxStream == 6
MaxDrops == 1       \* reconnects of the reader thread in one run of SpecLink
MaxRecs == 5        \* records the device sends in one run of SpecPipe
QueueMax == 2       \* capacity of q_parsed (queue.Queue(maxsize=20000))
RingMax == 2        \* capacity of the ring (deque(maxlen=RING))
MaxThreads == 2     \* reader threads that can be alive at one time
MaxSessRecs == 1    \* records the device sends in one run of Spec / SpecReader
MaxCmds == 3        \* commands sent in one run of SpecLED
TimeoutTicks == 2   \* poll intervals (time.sleep(0.02)) that make up timeout_s
MaxFields3 == 4     \* fields of a frame tried on the 3-field decoders
MaxFields7 == 8     \* fields of a frame tried on the 7-field decoders
MaxChunks == 3      \* notifications delivered in one run of SpecSense
MaxSessions == 2    \* connect_and_listen coroutines scheduled at one time

\* Program constants.
CONNECT_RETRIES == 3
NOTIFY_RETRIES == 3

(***************************************************************************)
(* Bytes.  b"\n" and b"\r" are the two terminators the framer looks for;   *)
(* every other byte is payload.                                            *)
(***************************************************************************)
LF == 10
CR == 13
PayloadBytes == {97, 98}
Bytes == PayloadBytes \cup {LF, CR}

VARIABLES
    \* ---- line framer (SpecFramer)
    stream,      \* the bytes the device sends, in order
    pos,         \* how many of them the transport has delivered so far
    buffer,      \* the framer's bytearray
    lines,       \* the frames handed to the decoder so far, in order
    calls,       \* number of feeds so far (2 stands for "two or more")
    cuts,        \* how many bytes had been delivered at each reconnect of the thread
    \* ---- relay channel, ring, accumulator (SpecPipe, Spec)
    q_parsed,    \* ss.q_parsed, oldest first
    data,        \* ss.data, the ring, oldest first
    all_rows,    \* ss.all_rows, the accumulator
    t0,          \* ss.t0: None or the time of the last Start
    decoded,     \* every record a reader decoded, in decoding order (history)
    cpc,         \* where the consumer (the Streamlit script run) is
    passes,      \* pump_queue_into_buffers: passes of the for loop left
    added,       \* pump_queue_into_buffers: added
    total,       \* pump_queue_into_buffers: total
    \* ---- history of the sessions: who decoded what
    launched,    \* the slot of the thread the latest start_reader started
    fresh,       \* the samples (by number) which that thread has decoded
    \* ---- reader threads (Spec); each is indexed by its slot
    variant,     \* which dashboard runs: "ble", "ble_final", "stream", "usb_live"
    th_pc,       \* where the thread is in its function
    th_i,        \* the retry loop's i of connect_once / start_notifications
    th_stop,     \* the thread's stop_event is set
    th_link,     \* the thread's client is connected / its port is open
    th_conn,     \* conn_flag[0] / ser_open_flag[0]
    th_err,      \* err_holder[0]
    \* ---- consumer session state (Spec)
    ss_thread,   \* ss.reader_thread: NoThread or the thread's slot
    ss_stop_event, \* ss.stop_event: NoThread or the slot of the thread it stops
    ss_connected,  \* ss.connected / ss.ser_open
    ss_last_error, \* ss.last_error
    download,    \* ss.download_bytes: NoDownload or the CSV built by Stop
    \* ---- BLE LED controller (SpecLED)
    led_pc,      \* where send_and_wait is: "idle", "poll", "sleep", "hit"
    led_cmd,     \* number of the command last sent (0: none yet)
    led_elapsed, \* poll intervals slept in the current send_and_wait
    last_reply,  \* BLEManager.last_reply
    led_ret,     \* what the last send_and_wait gave its caller
    led_air,     \* replies the device has sent that are not yet notified
    led_intime,  \* a reply was notified in this call before its timeout
    led_link,    \* BLEManager.client.is_connected
    led_sub,     \* start_notify succeeded on BLEManager.client
    led_conn,    \* BLEManager.connected
    \* ---- record decoders (SpecDecode)
    dec_frame,   \* the frame handed to a decoder (a string, as a sequence of characters)
    dec_fn,      \* the decoder that was applied to it
    dec_out,     \* what the decoder returned, or that it raised
    \* ---- liveness probe (SpecPing)
    ping_pc,     \* position of the call of try_ping
    ping_line,   \* the bytes ser.readline() returned
    ping_fail,   \* an operation on the port raised
    ping_ret,    \* what try_ping gave its caller
    \* ---- Test_BLE_Sense.py (SpecSense)
    sense_queue,     \* st.session_state.queue, the deque that is displayed
    sense_buffer,    \* st.session_state.buffer, the text not yet split
    sense_connected, \* st.session_state.connected
    sense_sent,      \* notifications delivered so far
    sense_pc,        \* where each scheduled connect_and_listen is
    sense_client,    \* st.session_state.client: NoThread or the session that stored it
    \* ---- serial command exchange (SpecCmd)
    cmd_pc,      \* position of the call of send_cmd
    cmd_elapsed, \* reads that came back empty since the command was written
    cmd_seen,    \* the lines ser.readline() has returned in this call
    cmd_reply,   \* the local variable reply
    cmd_fail,    \* an operation on the port raised
    cmd_ret,     \* what send_cmd gave its caller
    \* ---- xiao_usb_live.py (SpecLive); its q_parsed, its ring `parsed` and
    \* its script position are q_parsed, data and cpc
    log_rows,    \* st.session_state.log_rows
    logging,     \* st.session_state.logging
    live_thread, \* st.session_state.reader_thread: "none", or "alive" / "dead"
    live_old     \* a thread that outlived the join of stop_reader is alive

framerVars == <<stream, pos, buffer, lines, calls, cuts>>
pipeVars == <<q_parsed, data, all_rows, t0, decoded, fresh>>
pumpVars == <<cpc, passes, added, total>>
threadVars == <<th_pc, th_i, th_stop, th_link, th_conn, th_err>>
ssVars == <<ss_thread, ss_stop_event, ss_connected, ss_last_error, download, launched>>
sessVars == <<variant, threadVars, ssVars>>
ledVars == <<led_pc, led_cmd, led_elapsed, last_reply, led_ret, led_air, led_intime,
             led_link, led_sub, led_conn>>
decVars == <<dec_frame, dec_fn, dec_out>>
pingVars == <<ping_pc, ping_line, ping_fail, ping_ret>>
senseVars == <<sense_queue, sense_buffer, sense_connected, sense_sent, sense_pc,
               sense_client>>
cmdVars == <<cmd_pc, cmd_elapsed, cmd_seen, cmd_reply, cmd_fail, cmd_ret>>
liveVars == <<log_rows, logging, live_thread, live_old>>
extVars == <<decVars, pingVars, senseVars, cmdVars, liveVars>>
coreVars == <<framerVars, ledVars, pipeVars, pumpVars, sessVars>>
\* What the steps of one of the small specifications leave unchanged.
decOthers == <<coreVars, pingVars, senseVars, cmdVars, liveVars>>
pingOthers == <<coreVars, decVars, senseVars, cmdVars, liveVars>>
senseOthers == <<coreVars, decVars, pingVars, cmdVars, liveVars>>
cmdOthers == <<coreVars, decVars, pingVars, senseVars, liveVars>>
liveOthers == <<framerVars, ledVars, sessVars, decVars, pingVars, senseVars, cmdVars>>
vars == <<framerVars, ledVars, extVars, pipeVars, pumpVars, sessVars>>

None == "None"
Threads == 1..MaxThreads
\* The connect_and_listen coroutines that can be scheduled at one time.
Sessions == 1..MaxSessions
\* ss.reader_thread / ss.stop_event holding None.
NoThread == 0
\* ss.download_bytes holding b"".
NoDownload == <<>>

\* columns=["t","ax","ay","az","gx","gy","gz"], the header line of the CSV.
CsvHeader == <<"t", "ax", "ay", "az", "gx", "gy", "gz">>

\* The line to_csv writes for one record: its fields, t first.
CsvRow(full) == <<full.t, full.v>>

\* Mutant of CSV: the lines are written without the header and newest first.
CSVNewestFirst(rows) == [i \in 1..Len(rows) |-> CsvRow(rows[Len(rows) + 1 - i])]

\* pd.DataFrame(rows, columns=...).to_csv(index=False): the header line, then
\* one line per record in the order of the list.
CSV(rows) == <<CsvHeader>> \o [i \in 1..Len(rows) |-> CsvRow(rows[i])]

(***************************************************************************)
(* The line framer.                                                        *)
(***************************************************************************)
\* bytes.find(b): 0-based index of the first occurrence, -1 when absent.
Find(buf, b) ==
    IF \E i \in 1..Len(buf) : buf[i] = b
    THEN (CHOOSE i \in 1..Len(buf) : buf[i] = b /\ \A j \in 1..(i-1) : buf[j] # b) - 1
    ELSE -1

\* The terminator position chosen from npos and rpos.
Term(buf) ==
    LET npos == Find(buf, LF)
        rpos == Find(buf, CR)
    IN  IF npos # -1 /\ rpos # -1 THEN (IF npos < rpos THEN npos ELSE rpos)
        ELSE IF npos # -1 THEN npos
        ELSE IF rpos # -1 THEN rpos
        ELSE -1

\* Mutants of Drop: one byte too many is deleted / the paired terminator is
\* never deleted.
DropOneTooMany(buf, term) == IF term + 2 <= Len(buf) THEN term + 2 ELSE term + 1
DropUnpaired(buf, term) == term + 1

\* Number of bytes deleted with a frame: the terminator and one directly
\* following terminator byte, when the buffer already holds it.
Drop(buf, term) ==
    LET drop == term + 1
    IN  IF drop < Len(buf) /\ buf[drop + 1] \in {LF, CR} THEN drop + 1 ELSE drop

\* buffer[a:b] of Python (0-based, b exclusive).
Slice(buf, a, b) == SubSeq(buf, a + 1, b)

\* The while-True loop of the framer: frames are cut off the front of buf
\* until no terminator is left; out collects them.
RECURSIVE SplitLoop(_, _)
SplitLoop(buf, out) ==
    LET term == Term(buf)
    IN  IF term = -1
        THEN [buffer |-> buf, lines |-> out]
        ELSE SplitLoop(Slice(buf, Drop(buf, term), Len(buf)),
                       Append(out, Slice(buf, 0, term)))

\* One feed: buffer += data, then the loop.
Feed(buf, chunk) == SplitLoop(buf \o chunk, <<>>)

(***************************************************************************)
(* SpecFramer: a byte stream is chosen, and the transport delivers it in   *)
(* chunks of any size.                                                     *)
(***************************************************************************)
RECURSIVE SeqsUpTo(_, _)
SeqsUpTo(S, n) ==
    IF n = 0 THEN {<<>>}
    ELSE LET shorter == SeqsUpTo(S, n - 1)
         IN  shorter \cup {Append(s, x) : s \in {t \in shorter : Len(t) = n - 1}, x \in S}

\* The state of the session variables when the script first runs.
InitPipe ==
    /\ q_parsed = <<>>
    /\ data = <<>>
    /\ all_rows = <<>>
    /\ t0 = None
    /\ decoded = <<>>
    /\ fresh = {}
    /\ cpc = "idle"
    /\ passes = 0
    /\ added = 0
    /\ total = 0

\* No reader thread exists and the session state has its defaults.
InitSession ==
    /\ th_pc = [t \in Threads |-> "none"]
    /\ th_i = [t \in Threads |-> 0]
    /\ th_stop = [t \in Threads |-> FALSE]
    /\ th_link = [t \in Threads |-> FALSE]
    /\ th_conn = [t \in Threads |-> FALSE]
    /\ th_err = [t \in Threads |-> ""]
    /\ ss_thread = NoThread
    /\ ss_stop_event = NoThread
    /\ ss_connected = FALSE
    /\ ss_last_error = ""
    /\ download = NoDownload
    /\ launched = NoThread

\* BLEManager.__init__, and the marks of the model: no command sent yet,
\* nothing returned yet.
NoReply == <<>>
NoReturn == <<"none">>

\* No frame has been handed to a decoder.
InitExt ==
    /\ dec_frame = <<>>
    /\ dec_fn = "none"
    /\ dec_out = <<"none">>
    /\ ping_pc = "call" /\ ping_line = <<>> /\ ping_fail = FALSE /\ ping_ret = "none"
    /\ sense_queue = <<>> /\ sense_buffer = <<>>
    /\ sense_connected = FALSE /\ sense_sent = 0
    /\ sense_pc = [c \in Sessions |-> "none"] /\ sense_client = NoThread
    /\ cmd_pc = "call" /\ cmd_elapsed = 0 /\ cmd_seen = <<>> /\ cmd_reply = <<>>
    /\ cmd_fail = FALSE /\ cmd_ret = <<"none">>
    /\ log_rows = <<>> /\ logging = FALSE /\ live_thread = "none" /\ live_old = FALSE

InitLED ==
    /\ led_pc = "idle"
    /\ led_cmd = 0
    /\ led_elapsed = 0
    /\ last_reply = NoReply
    /\ led_ret = NoReturn
    /\ led_air = <<>>
    /\ led_intime = FALSE
    /\ led_link = FALSE
    /\ led_sub = FALSE
    /\ led_conn = FALSE

InitFramer ==
    /\ stream \in SeqsUpTo(Bytes, MaxStream)
    /\ pos = 0
    /\ buffer = <<>>
    /\ lines = <<>>
    /\ calls = 0
    /\ cuts = {}
    /\ InitPipe
    /\ InitSession
    /\ InitLED
    /\ InitExt
    /\ variant = "ble"

\* handle_notify(_, data) / the "if chunk:" branch of reader_thread_fn, for a
\* non-empty chunk of n bytes.
HandleNotify(n) ==
    LET r == Feed(buffer, SubSeq(stream, pos + 1, pos + n))
    IN  /\ buffer' = r.buffer
        /\ lines' = lines \o r.lines
        /\ pos' = pos + n
        /\ calls' = IF calls < 2 THEN calls + 1 ELSE 2
        /\ UNCHANGED <<stream, cuts, pipeVars, pumpVars, sessVars, ledVars, extVars>>

NextFramer == \E n \in 1..(Len(stream) - pos) : HandleNotify(n)

SpecFramer == InitFramer /\ [][NextFramer]_vars

(***************************************************************************)
(* SpecLink: the framer of one BLE reader thread whose link drops and is   *)
(* made again while the stream is delivered.                               *)
(***************************************************************************)
\* The link drops and the main loop of run() connects and subscribes again:
\* the new client is given the same handle_notify, whose buffer was made
\* once, at the top of run(), and is not touched by the loop.
Reconnect ==
    /\ 0 < pos /\ pos < Len(stream)
    /\ pos \notin cuts
    /\ Cardinality(cuts) < MaxDrops
    /\ cuts' = cuts \cup {pos}
    /\ UNCHANGED <<stream, pos, buffer, lines, calls>>
    /\ UNCHANGED <<pipeVars, pumpVars, sessVars, ledVars, extVars>>

NextLink ==
    \/ \E n \in 1..(Len(stream) - pos) : HandleNotify(n)
    \/ Reconnect

SpecLink == InitFramer /\ [][NextLink]_vars

(***************************************************************************)
(* Properties of the line framer.                                          *)
(***************************************************************************)
Received == SubSeq(stream, 1, pos)
IsTerm(b) == b \in {LF, CR}

RECURSIVE Flatten(_)
Flatten(ss) == IF ss = <<>> THEN <<>> ELSE Head(ss) \o Flatten(Tail(ss))

RECURSIVE Payload(_)
Payload(s) ==
    IF s = <<>> THEN <<>>
    ELSE IF IsTerm(Head(s)) THEN Payload(Tail(s))
    ELSE <<Head(s)>> \o Payload(Tail(s))

\* Index of the last terminator byte of s, 0 when it has none.
LastTerm(s) ==
    IF \E i \in 1..Len(s) : IsTerm(s[i])
    THEN CHOOSE i \in 1..Len(s) : IsTerm(s[i]) /\ \A j \in (i+1)..Len(s) : ~IsTerm(s[j])
    ELSE 0

\* s is a sequence of lines of payload bytes, each ended by CR LF.
IsCRLFStream(s) ==
    /\ s # <<>>
    /\ s[Len(s)] = LF
    /\ \A i \in 1..Len(s) : s[i] = LF => (i > 1 /\ s[i-1] = CR)
    /\ \A i \in 1..Len(s) : s[i] = CR => (i < Len(s) /\ s[i+1] = LF)

\* The lines of a CR LF stream, cut at each CR LF pair.
RECURSIVE CRLFLines(_, _)
CRLFLines(s, cur) ==
    IF s = <<>> THEN <<>>
    ELSE IF Head(s) = CR THEN <<cur>> \o CRLFLines(Tail(Tail(s)), <<>>)
    ELSE CRLFLines(Tail(s), Append(cur, Head(s)))

\* C7 (as claimed): feeding the received bytes chunk by chunk has emitted the
\* same sequence of frames as feeding them in one call.
C7_ChunkingSameFrames == lines = Feed(<<>>, Received).lines

\* C8: after every feed the buffer holds no terminator byte and is exactly
\* the bytes received after the last terminator, and the emitted frames
\* followed by the buffer are the received payload bytes, in order, each once.
C8_FramerKeepsPayload ==
    /\ \A i \in 1..Len(buffer) : ~IsTerm(buffer[i])
    /\ buffer = SubSeq(Received, LastTerm(Received) + 1, Len(Received))
    /\ Flatten(lines) \o buffer = Payload(Received)

\* C8 witness: several feeds, a frame cut in two by a chunk boundary has been
\* emitted, and a partial frame is buffered.
C8_Witness ==
    /\ calls = 2
    /\ \E i \in 1..Len(lines) : Len(lines[i]) >= 2
    /\ Len(lines) >= 2
    /\ buffer # <<>>

\* C9: a stream of CR LF terminated lines fed in one call yields exactly its
\* lines as frames: one per line, no terminator byte in any, nothing buffered.
C9_CRLFOneFramePerLine ==
    (calls = 1 /\ pos = Len(stream) /\ IsCRLFStream(stream)) =>
        /\ lines = CRLFLines(stream, <<>>)
        /\ \A i \in 1..Len(lines) : \A j \in 1..Len(lines[i]) : ~IsTerm(lines[i][j])
        /\ buffer = <<>>

\* C9 witness: two non-empty CR LF lines were fed in one call.
C9_Witness ==
    /\ calls = 1 /\ pos = Len(stream) /\ IsCRLFStream(stream)
    /\ Len(lines) = 2 /\ lines[1] # <<>> /\ lines[2] # <<>>

(***************************************************************************)
(* The relay channel, the ring and the accumulator.                        *)
(***************************************************************************)
\* Mutants of PutNowait: a full queue evicts its oldest record / the record
\* is put at the front.
PutEvictOldest(q, rec) == IF Len(q) >= QueueMax THEN Append(Tail(q), rec) ELSE Append(q, rec)
PutFront(q, rec) == IF Len(q) >= QueueMax THEN q ELSE <<rec>> \o q

\* q_parsed.put_nowait(parsed) inside try / except queue.Full: pass.
PutNowait(q, rec) == IF Len(q) >= QueueMax THEN q ELSE Append(q, rec)

\* Mutant of RingAppend: a full ring refuses the new element.
RingKeepOldest(d, x) == IF Len(d) >= RingMax THEN d ELSE Append(d, x)

\* deque(maxlen=RING).append(x): the oldest element leaves a full ring.
RingAppend(d, x) == IF Len(d) >= RingMax THEN Append(Tail(d), x) ELSE Append(d, x)

\* The token for time.time() - ss.t0, the wall-clock offset at drain time: a
\* value that no device timestamp of the model takes.
TRel == -1

\* full = (t_rel, ax, ..., gz) of pump_queue_into_buffers.
Full(row) ==
    [t |-> IF t0 # None THEN TRel ELSE (IF row.t # 0 THEN row.t ELSE 0),
     v |-> row.v]

\* The resets of start_reader that concern the buffers.
ResetBuffers ==
    /\ data' = <<>>
    /\ all_rows' = <<>>
    /\ fresh' = {}
    /\ t0' = "set"

\* The tail of handle_notify for a frame that decoded to rec.
PushParsed(rec, t) ==
    /\ decoded' = Append(decoded, rec)
    /\ fresh' = IF t = launched THEN fresh \cup {rec.v} ELSE fresh
    /\ q_parsed' = PutNowait(q_parsed, rec)

\* pump_queue_into_buffers(repeat) is entered: total = 0 and the first pass
\* of range(max(1, repeat)) starts with added = 0.
PumpEnter(repeat) ==
    /\ passes' = IF repeat > 1 THEN repeat ELSE 1
    /\ added' = 0
    /\ total' = 0

\* Mutant of PumpGet: the row goes to the ring only.
PumpGetRingOnly ==
    /\ cpc \in {"pump", "start_pump"}
    /\ q_parsed # <<>>
    /\ q_parsed' = Tail(q_parsed)
    /\ data' = RingAppend(data, Full(Head(q_parsed)))
    /\ added' = added + 1
    /\ UNCHANGED <<all_rows, t0, decoded, fresh, cpc, passes, total>>

\* get_nowait() returned a row: it goes to the ring and to the accumulator.
PumpGet ==
    /\ cpc \in {"pump", "start_pump"}
    /\ q_parsed # <<>>
    /\ q_parsed' = Tail(q_parsed)
    /\ data' = RingAppend(data, Full(Head(q_parsed)))
    /\ all_rows' = Append(all_rows, Full(Head(q_parsed)))
    /\ added' = added + 1
    /\ UNCHANGED <<t0, decoded, fresh, cpc, passes, total>>

\* get_nowait() raised queue.Empty: the pass ends.  The pump returns when the
\* pass moved nothing or was the last one, else it sleeps and starts the next.
\* The pump of start_reader is followed by st.rerun(), and the new script
\* run goes to the script body's pump; that pump ends the script run.
PumpPassEnd ==
    /\ cpc \in {"pump", "start_pump"}
    /\ q_parsed = <<>>
    /\ IF added = 0 \/ passes = 1
       THEN IF cpc = "start_pump"
            THEN cpc' = "pump" /\ PumpEnter(3)
            ELSE cpc' = "idle" /\ passes' = 0 /\ added' = 0 /\ total' = total + added
       ELSE /\ passes' = passes - 1
            /\ added' = 0
            /\ total' = total + added
            /\ cpc' = cpc
    /\ UNCHANGED pipeVars

(***************************************************************************)
(* SpecPipe: records are decoded and pushed by a reader while the consumer *)
(* starts sessions and drains, in every interleaving.                      *)
(***************************************************************************)
\* The device's n-th sample; the device stamps it n, or sends t = 0.
Sample(n, stamped) == [t |-> IF stamped THEN n ELSE 0, v |-> n]

\* A reader decodes the next sample and pushes it (a reader exists only
\* after a Start).
PipeProduce ==
    /\ t0 # None
    /\ Len(decoded) < MaxRecs
    /\ \E stamped \in BOOLEAN : PushParsed(Sample(Len(decoded) + 1, stamped), launched)
    /\ UNCHANGED <<data, all_rows, t0, pumpVars, framerVars, ledVars, extVars, sessVars>>

\* Start is handled (start_reader up to the thread's start).
PipeStart ==
    /\ cpc = "idle"
    /\ ResetBuffers
    /\ download' = NoDownload
    /\ UNCHANGED <<ss_thread, ss_stop_event, ss_connected, ss_last_error, launched>>
    /\ UNCHANGED <<q_parsed, decoded, pumpVars, framerVars, ledVars, extVars, threadVars, variant>>

\* Stop is handled (stop_reader_and_save after the join): the CSV is built
\* from a non-empty accumulator, and the script goes on to its pump.
PipeStop ==
    /\ cpc = "idle"
    /\ download' = IF all_rows # <<>> THEN CSV(all_rows) ELSE download
    /\ cpc' = "pump"
    /\ PumpEnter(3)
    /\ UNCHANGED <<ss_thread, ss_stop_event, ss_connected, ss_last_error, launched>>
    /\ UNCHANGED <<pipeVars, framerVars, ledVars, extVars, threadVars, variant>>

\* A script run reaches pump_queue_into_buffers(repeat=3).
PipePump ==
    /\ cpc = "idle"
    /\ cpc' = "pump"
    /\ PumpEnter(3)
    /\ UNCHANGED <<pipeVars, framerVars, ledVars, extVars, sessVars>>

InitPipeSpec ==
    /\ InitPipe
    /\ InitSession
    /\ InitLED
    /\ InitExt
    /\ variant = "ble"
    /\ stream = <<>> /\ pos = 0 /\ buffer = <<>> /\ lines = <<>> /\ calls = 0 /\ cuts = {}

NextPipe ==
    \/ PipeProduce
    \/ PipeStart
    \/ PipeStop
    \/ PipePump
    \/ PumpGet /\ UNCHANGED <<framerVars, ledVars, extVars, sessVars>>
    \/ PumpPassEnd /\ UNCHANGED <<framerVars, ledVars, extVars, sessVars>>

SpecPipe == InitPipeSpec /\ [][NextPipe]_vars

(***************************************************************************)
(* Properties of the relay channel, the ring and the accumulator.          *)
(***************************************************************************)
\* The sample numbers of a sequence of records.
Vals(rs) == [i \in 1..Len(rs) |-> rs[i].v]

\* a is an order-preserving subsequence of b.
RECURSIVE IsSubseq(_, _)
IsSubseq(a, b) ==
    IF a = <<>> THEN TRUE
    ELSE IF b = <<>> THEN FALSE
    ELSE IF Head(a) = Head(b) THEN IsSubseq(Tail(a), Tail(b))
    ELSE IsSubseq(a, Tail(b))

\* The last n elements of s (all of s when it is shorter).
LastN(s, n) == IF Len(s) <= n THEN s ELSE SubSeq(s, Len(s) - n + 1, Len(s))

\* C5: the records in the accumulator and in the ring are, in order, a
\* subsequence of the records in the order the readers decoded them.
C5_DrainKeepsDecodeOrder ==
    /\ IsSubseq(Vals(all_rows), Vals(decoded))
    /\ IsSubseq(Vals(data), Vals(decoded))

\* C5 witness: three records are accumulated, with a record that was decoded
\* between two of them missing (dropped by a full channel).
C5_Witness ==
    /\ Len(all_rows) >= 3
    /\ \E i \in 1..(Len(all_rows) - 1) : all_rows[i+1].v > all_rows[i].v + 1

\* C6: the channel never holds more than its capacity, and a push onto a full
\* channel leaves it as it was while a push onto a channel with room appends
\* the record at the end.
C6_PushDropsNewestWhenFull ==
    /\ [](Len(q_parsed) <= QueueMax)
    /\ [][decoded' # decoded =>
            q_parsed' = IF Len(q_parsed) = QueueMax
                        THEN q_parsed
                        ELSE Append(q_parsed, decoded'[Len(decoded')])]_vars

\* C6 witness: the channel is full of the first records decoded and undrained,
\* and two more records were decoded since (and dropped).
C6_Witness ==
    /\ Len(q_parsed) = QueueMax
    /\ Vals(q_parsed) = [i \in 1..QueueMax |-> i]
    /\ Len(decoded) = QueueMax + 2

\* C12: a Stop that finds records in the accumulator produces a CSV of the
\* header line followed by one line per record of the accumulator as it is at
\* that moment, in its order; a Stop that finds none produces no document.
C12_ExportHasOneRowPerRecord ==
    [][PipeStop =>
        IF all_rows = <<>>
        THEN download' = download
        ELSE /\ Len(download') = Len(all_rows) + 1
             /\ download'[1] = CsvHeader
             /\ \A i \in 1..Len(all_rows) :
                    download'[i + 1] = <<all_rows[i].t, all_rows[i].v>>]_vars

\* C12 witness: a Stop has exported three records, which are the accumulator.
C12_Witness ==
    /\ Len(download) = 4 /\ Len(all_rows) = 3
    /\ \A i \in 1..3 : download[i + 1][2] = all_rows[i].v
    /\ cpc = "pump"

\* C24: a drained record keeps a non-zero device timestamp as its time value
\* in the ring and in the accumulator; only a zero (or absent) timestamp is
\* replaced by the wall-clock offset since the session's start.
C24_DeviceTimestampKept ==
    [][PumpGet =>
          LET row == Head(q_parsed)
              kept == IF row.t # 0 THEN row.t ELSE TRel
          IN /\ all_rows'[Len(all_rows')].t = kept
             /\ data'[Len(data')].t = kept]_vars

\* C10: the ring holds at most RingMax records and is the last
\* min(RingMax, Len(all_rows)) records of the accumulator, oldest first.
C10_RingIsTailOfAccumulator ==
    /\ Len(data) <= RingMax
    /\ data = LastN(all_rows, RingMax)

\* C10 witness: RingMax + 2 records were drained in one session.
C10_Witness ==
    /\ Len(all_rows) = RingMax + 2
    /\ Len(data) = RingMax

(***************************************************************************)
(* The BLE reader thread: ble_reader_thread.run of xiao_imu_ble.py and of  *)
(* xiao_imu_ble_final.py.  th_pc[t] is                                     *)
(*   "none"     no thread was ever started in slot t                       *)
(*   "loop"     started, before the first `while not stop_event.is_set()`  *)
(*   "resolve"  connect_once: looking the device up                        *)
(*   "connect"  connect_once: attempt th_i[t] of the retry loop            *)
(*   "notify"   start_notifications: attempt th_i[t] of the retry loop     *)
(*   "pump"     `while not stop_event.is_set() and client.is_connected`    *)
(*   "backoff"  in the sleep before the next pass of the main loop         *)
(*   "done"     run() returned and the thread ended                        *)
(* Steps of one thread that touch nothing another context reads or writes  *)
(* are taken together with the step before them.                           *)
(***************************************************************************)
IsBLE == variant \in {"ble", "ble_final"}
Alive(t) == th_pc[t] \notin {"none", "done"}
Subscribed(t) == th_pc[t] = "pump"

consumerVars == <<pumpVars, ssVars>>

\* Mutant of LoopTop: the loop does not look at the stop event.
LoopTopIgnoresStop(stopSet) == "resolve"

\* `while not stop_event.is_set()`: leave the loop and end, or call
\* connect_once.
LoopTop(stopSet) == IF stopSet THEN "done" ELSE "resolve"

\* Mutant of AfterSession: a dropped link ends the thread.
AfterSessionGivesUp(stopSet) == "done"

\* `if stop_event.is_set(): break` after the finally, else on to the
\* reconnect backoff.
AfterSession(stopSet) == IF stopSet THEN "done" ELSE "backoff"

\* The loop's condition is read, at the thread's start or when a sleep is
\* over (1.0 s after a failed connect_once, RECONNECT_BACKOFF_S after a failed
\* subscription or a drop): the thread ends, or calls connect_once.
BLE_LoopCheck(t) ==
    /\ IsBLE /\ th_pc[t] \in {"loop", "backoff"}
    /\ th_pc' = [th_pc EXCEPT ![t] = LoopTop(th_stop[t])]
    /\ UNCHANGED <<th_i, th_stop, th_link, th_conn, th_err>>
    /\ UNCHANGED <<framerVars, ledVars, extVars, pipeVars, consumerVars, variant>>

\* connect_once resolves the device.  xiao_imu_ble.py ignores a failed lookup
\* and uses the handle it was given; xiao_imu_ble_final.py stores an error and
\* returns None when its filter finds no device, and the main loop sleeps.
BLE_Resolve(t) ==
    /\ IsBLE /\ th_pc[t] = "resolve"
    /\ \/ /\ th_pc' = [th_pc EXCEPT ![t] = "connect"]
          /\ UNCHANGED th_err
       \/ /\ variant = "ble_final"
          /\ th_err' = [th_err EXCEPT ![t] = "Device not found"]
          /\ th_pc' = [th_pc EXCEPT ![t] = "backoff"]
    /\ th_i' = [th_i EXCEPT ![t] = 0]
    /\ UNCHANGED <<th_stop, th_link, th_conn>>
    /\ UNCHANGED <<framerVars, ledVars, extVars, pipeVars, consumerVars, variant>>

\* Mutant of ConnectGivesUp: one attempt more is made.
ConnectGivesUpLate(i) == i + 1 >= CONNECT_RETRIES + 1

\* for i in range(CONNECT_RETRIES): attempt i was the last one.
ConnectGivesUp(i) == i + 1 >= CONNECT_RETRIES

\* One attempt of connect_once.  It returns the connected client, and the
\* main loop sets conn_flag and clears err_holder; or it fails (an exception,
\* or a client that is not connected after the wait), and after the last
\* attempt connect_once stores the error and returns None.
BLE_ConnectAttempt(t) ==
    /\ IsBLE /\ th_pc[t] = "connect"
    /\ \/ /\ th_link' = [th_link EXCEPT ![t] = TRUE]
          /\ th_conn' = [th_conn EXCEPT ![t] = TRUE]
          /\ th_err' = [th_err EXCEPT ![t] = ""]
          /\ th_pc' = [th_pc EXCEPT ![t] = "notify"]
          /\ th_i' = [th_i EXCEPT ![t] = 0]
       \/ /\ IF ConnectGivesUp(th_i[t])
             THEN /\ th_err' = [th_err EXCEPT ![t] = "Connect failed"]
                  /\ th_pc' = [th_pc EXCEPT ![t] = "backoff"]
                  /\ th_i' = [th_i EXCEPT ![t] = 0]
             ELSE /\ th_i' = [th_i EXCEPT ![t] = th_i[t] + 1]
                  /\ UNCHANGED <<th_err, th_pc>>
          /\ UNCHANGED <<th_link, th_conn>>
    /\ UNCHANGED th_stop
    /\ UNCHANGED <<framerVars, ledVars, extVars, pipeVars, consumerVars, variant>>

\* One attempt of start_notifications: start_notify succeeds on a live link,
\* or raises.  After the last failed attempt the error is stored, False is
\* returned, and `if not ok` closes the client and clears conn_flag before
\* the backoff sleep; when that __aexit__ raises, the except clause stores
\* the exception, the finally clears conn_flag, and the stop event is read.
\* A disconnect that raises is taken to leave no link behind.
BLE_NotifyAttempt(t) ==
    /\ IsBLE /\ th_pc[t] = "notify"
    /\ \/ /\ th_link[t]
          /\ th_pc' = [th_pc EXCEPT ![t] = "pump"]
          /\ th_i' = [th_i EXCEPT ![t] = 0]
          /\ UNCHANGED <<th_err, th_link, th_conn>>
       \/ /\ th_i[t] + 1 < NOTIFY_RETRIES
          /\ th_i' = [th_i EXCEPT ![t] = th_i[t] + 1]
          /\ UNCHANGED <<th_err, th_pc, th_link, th_conn>>
       \/ /\ th_i[t] + 1 >= NOTIFY_RETRIES
          /\ th_i' = [th_i EXCEPT ![t] = 0]
          /\ th_link' = [th_link EXCEPT ![t] = FALSE]
          /\ th_conn' = [th_conn EXCEPT ![t] = FALSE]
          /\ \/ /\ th_err' = [th_err EXCEPT ![t] = "Notify start failed"]
                /\ th_pc' = [th_pc EXCEPT ![t] = "backoff"]
             \/ /\ th_err' = [th_err EXCEPT ![t] = "Exception"]
                /\ th_pc' = [th_pc EXCEPT ![t] = AfterSession(th_stop[t])]
    /\ UNCHANGED th_stop
    /\ UNCHANGED <<framerVars, ledVars, extVars, pipeVars, consumerVars, variant>>

\* The pump loop's condition fails (Stop was requested or the link is down):
\* stop_notify and, in the finally, __aexit__ (their failures ignored),
\* conn_flag[:] = [False], then the stop event is read.
BLE_PumpExit(t) ==
    /\ IsBLE /\ th_pc[t] = "pump"
    /\ th_stop[t] \/ ~th_link[t]
    /\ th_link' = [th_link EXCEPT ![t] = FALSE]
    /\ th_conn' = [th_conn EXCEPT ![t] = FALSE]
    /\ th_pc' = [th_pc EXCEPT ![t] = AfterSession(th_stop[t])]
    /\ UNCHANGED <<th_i, th_stop, th_err>>
    /\ UNCHANGED <<framerVars, ledVars, extVars, pipeVars, consumerVars, variant>>

\* A notification arrives on the subscribed client and handle_notify runs on
\* the thread's event loop: its frame decodes to the device's next sample.
BLE_Notify(t) ==
    /\ IsBLE /\ Subscribed(t) /\ th_link[t]
    /\ Len(decoded) < MaxSessRecs
    /\ PushParsed(Sample(Len(decoded) + 1, TRUE), t)
    /\ UNCHANGED <<data, all_rows, t0>>
    /\ UNCHANGED <<framerVars, ledVars, extVars, threadVars, consumerVars, variant>>

\* The peer drops the link (or it times out).
LinkDrop(t) ==
    /\ IsBLE /\ th_link[t]
    /\ th_link' = [th_link EXCEPT ![t] = FALSE]
    /\ UNCHANGED <<th_pc, th_i, th_stop, th_conn, th_err>>
    /\ UNCHANGED <<framerVars, ledVars, extVars, pipeVars, consumerVars, variant>>

(***************************************************************************)
(* The serial reader thread: reader_thread_fn of xiao_imu_stream.py and of *)
(* xiao_usb_live.py.  th_pc[t] is                                          *)
(*   "open"  started, before serial.Serial(...) returned                   *)
(*   "read"  at `while not stop_event.is_set()`, the port open             *)
(*   "done"  the function returned and the thread ended                    *)
(* th_link[t] is ser.is_open, th_conn[t] is ser_open_flag.                 *)
(***************************************************************************)
IsSerial == variant \in {"stream", "usb_live"}

\* serial.Serial(...) returns the open port and ser_open_flag is set, or it
\* raises: the outer except stores the exception and the finally clears the
\* flag.
SER_Open(t) ==
    /\ IsSerial /\ th_pc[t] = "open"
    /\ \/ /\ th_link' = [th_link EXCEPT ![t] = TRUE]
          /\ th_conn' = [th_conn EXCEPT ![t] = TRUE]
          /\ th_pc' = [th_pc EXCEPT ![t] = "read"]
          /\ UNCHANGED th_err
       \/ /\ th_err' = [th_err EXCEPT ![t] = "Exception"]
          /\ th_conn' = [th_conn EXCEPT ![t] = FALSE]
          /\ th_pc' = [th_pc EXCEPT ![t] = "done"]
          /\ UNCHANGED th_link
    /\ UNCHANGED <<th_i, th_stop>>
    /\ UNCHANGED <<framerVars, ledVars, extVars, pipeVars, consumerVars, variant>>

\* The read loop's condition fails because Stop was requested: the finally
\* closes the port and clears ser_open_flag.
SER_LoopExit(t) ==
    /\ IsSerial /\ th_pc[t] = "read"
    /\ th_stop[t]
    /\ th_link' = [th_link EXCEPT ![t] = FALSE]
    /\ th_conn' = [th_conn EXCEPT ![t] = FALSE]
    /\ th_pc' = [th_pc EXCEPT ![t] = "done"]
    /\ UNCHANGED <<th_i, th_stop, th_err>>
    /\ UNCHANGED <<framerVars, ledVars, extVars, pipeVars, consumerVars, variant>>

\* One pass of the read loop in which ser.read(256) returned a chunk whose
\* frame decodes to the device's next sample.
SER_Read(t) ==
    /\ IsSerial /\ th_pc[t] = "read"
    /\ ~th_stop[t]
    /\ Len(decoded) < MaxSessRecs
    /\ PushParsed(Sample(Len(decoded) + 1, TRUE), t)
    /\ UNCHANGED <<data, all_rows, t0>>
    /\ UNCHANGED <<framerVars, ledVars, extVars, threadVars, consumerVars, variant>>

\* Mutant of SER_ReadError: the exception of ser.read leaves the thread
\* function; nothing is stored and the flag is not cleared.
SER_ReadErrorUncaught(t) ==
    /\ IsSerial /\ th_pc[t] = "read"
    /\ ~th_stop[t]
    /\ th_link' = [th_link EXCEPT ![t] = FALSE]
    /\ th_pc' = [th_pc EXCEPT ![t] = "crashed"]
    /\ UNCHANGED <<th_i, th_stop, th_err, th_conn>>
    /\ UNCHANGED <<framerVars, ledVars, extVars, pipeVars, consumerVars, variant>>

\* ser.read raises (the device was unplugged).  xiao_imu_stream.py stores
\* "Read error" and breaks; in xiao_usb_live.py the outer except stores the
\* exception.  Both end in the finally.
SER_ReadError(t) ==
    /\ IsSerial /\ th_pc[t] = "read"
    /\ ~th_stop[t]
    /\ th_err' = [th_err EXCEPT ![t] = IF variant = "stream" THEN "Read error" ELSE "Exception"]
    /\ th_link' = [th_link EXCEPT ![t] = FALSE]
    /\ th_conn' = [th_conn EXCEPT ![t] = FALSE]
    /\ th_pc' = [th_pc EXCEPT ![t] = "done"]
    /\ UNCHANGED <<th_i, th_stop>>
    /\ UNCHANGED <<framerVars, ledVars, extVars, pipeVars, consumerVars, variant>>

(***************************************************************************)
(* The consumer: one Streamlit script run handles at most one click, then  *)
(* drains the channel.  cpc is                                             *)
(*   "idle"         between script runs                                    *)
(*   "start_sleep"  start_reader: in the sleep after th.start()            *)
(*   "start_pump"   start_reader: in pump_queue_into_buffers(repeat=3)     *)
(*   "join"         stop_reader_and_save: in th.join(timeout)              *)
(*   "pump"         the script body's pump_queue_into_buffers              *)
(***************************************************************************)
FreeSlots == {t \in Threads : ~Alive(t)}
FreeSlot == CHOOSE t \in FreeSlots : \A u \in FreeSlots : t <= u

\* threading.Thread(...).start() in slot t with a fresh Event, err_holder
\* and conn_flag.
SpawnThread(t, entry) ==
    /\ th_pc' = [th_pc EXCEPT ![t] = entry]
    /\ th_i' = [th_i EXCEPT ![t] = 0]
    /\ th_stop' = [th_stop EXCEPT ![t] = FALSE]
    /\ th_link' = [th_link EXCEPT ![t] = FALSE]
    /\ th_conn' = [th_conn EXCEPT ![t] = FALSE]
    /\ th_err' = [th_err EXCEPT ![t] = ""]

\* `ss.reader_thread and ss.reader_thread.is_alive()`.
ReaderRunning == ss_thread # NoThread /\ Alive(ss_thread)

\* The Start button (enabled while not ss.connected) and start_reader up to
\* the sleep: nothing happens when the session's thread is alive (the script
\* goes on to its pump), else the state is reset and a thread is started.
BLE_StartClick ==
    /\ IsBLE /\ cpc = "idle" /\ ~ss_connected
    /\ IF ReaderRunning
       THEN /\ cpc' = "pump"
            /\ PumpEnter(3)
            /\ UNCHANGED <<pipeVars, threadVars, ssVars>>
       ELSE /\ FreeSlots # {}
            /\ ss_stop_event' = FreeSlot
            /\ ss_last_error' = ""
            /\ ResetBuffers
            /\ download' = NoDownload
            /\ SpawnThread(FreeSlot, "loop")
            /\ ss_thread' = FreeSlot
            /\ launched' = FreeSlot
            /\ cpc' = "start_sleep"
            /\ UNCHANGED <<q_parsed, decoded, ss_connected, passes, added, total>>
    /\ UNCHANGED <<framerVars, ledVars, extVars, variant>>

\* start_reader after the sleep: the thread's cells are read, once; then the
\* fast-start wait (it ends when a record is queued or at its deadline) and
\* the pump of start_reader begins.
BLE_StartSnapshot ==
    /\ IsBLE /\ cpc = "start_sleep"
    /\ ss_last_error' = th_err[ss_thread]
    /\ ss_connected' = th_conn[ss_thread]
    /\ cpc' = "start_pump"
    /\ PumpEnter(3)
    /\ UNCHANGED <<ss_thread, ss_stop_event, download, launched>>
    /\ UNCHANGED <<framerVars, ledVars, extVars, pipeVars, threadVars, variant>>

\* A script run with no click (the auto-refresh timer, or any other
\* widget): it reaches the pump.
BLE_ScriptRun ==
    /\ IsBLE /\ cpc = "idle"
    /\ cpc' = "pump"
    /\ PumpEnter(3)
    /\ UNCHANGED <<framerVars, ledVars, extVars, pipeVars, threadVars, ssVars, variant>>

\* The Stop button (enabled while ss.connected) and stop_reader_and_save up
\* to the join: the stop event is set.
BLE_StopClick ==
    /\ IsBLE /\ cpc = "idle" /\ ss_connected
    /\ th_stop' = IF ss_stop_event # NoThread
                  THEN [th_stop EXCEPT ![ss_stop_event] = TRUE]
                  ELSE th_stop
    /\ cpc' = "join"
    /\ UNCHANGED <<th_pc, th_i, th_link, th_conn, th_err, ssVars, passes, added, total>>
    /\ UNCHANGED <<framerVars, ledVars, extVars, pipeVars, variant>>

\* A join without a timeout: it returns only when the thread has exited.
JoinNeverTimesOut(t) ==
    FALSE

\* th.join(timeout=2.0) gives up on a thread that is inside connect_once or
\* start_notifications: the device lookup alone may take 3.5 s.  The thread's
\* sleeps and polls are shorter than the timeout.
JoinTimesOut(t) ==
    th_pc[t] \in {"resolve", "connect", "notify"}

\* stop_reader_and_save after the join: the references are dropped, the flag
\* cleared and the CSV built from a non-empty accumulator; the script then
\* goes on to its pump.
BLE_StopFinish ==
    /\ IsBLE /\ cpc = "join"
    /\ ~ReaderRunning \/ JoinTimesOut(ss_thread)
    /\ ss_thread' = NoThread
    /\ ss_stop_event' = NoThread
    /\ ss_connected' = FALSE
    /\ download' = IF all_rows # <<>> THEN CSV(all_rows) ELSE download
    /\ cpc' = "pump"
    /\ PumpEnter(3)
    /\ UNCHANGED <<ss_last_error, launched>>
    /\ UNCHANGED <<framerVars, ledVars, extVars, pipeVars, threadVars, variant>>

(***************************************************************************)
(* Spec: the dashboards' sessions.                                         *)
(***************************************************************************)
Variants == {"ble", "ble_final"}

Init ==
    /\ variant \in Variants
    /\ InitPipe
    /\ InitSession
    /\ InitLED
    /\ InitExt
    /\ stream = <<>> /\ pos = 0 /\ buffer = <<>> /\ lines = <<>> /\ calls = 0 /\ cuts = {}

\* The steps thread t takes by itself.
ThreadStep(t) ==
    \/ BLE_LoopCheck(t)
    \/ BLE_Resolve(t)
    \/ BLE_ConnectAttempt(t)
    \/ BLE_NotifyAttempt(t)
    \/ BLE_PumpExit(t)

\* What the device and the radio do to thread t.
DeviceStep(t) ==
    \/ BLE_Notify(t)
    \/ LinkDrop(t)

\* The steps a script run takes once it has begun.
ScriptStep ==
    \/ BLE_StartSnapshot
    \/ BLE_StopFinish
    \/ PumpGet /\ UNCHANGED <<framerVars, ledVars, extVars, sessVars>>
    \/ PumpPassEnd /\ UNCHANGED <<framerVars, ledVars, extVars, sessVars>>

\* What starts a script run: a click, or a rerun.
UserStep ==
    \/ BLE_StartClick
    \/ BLE_StopClick
    \/ BLE_ScriptRun

Next ==
    \/ \E t \in Threads : ThreadStep(t)
    \/ \E t \in Threads : DeviceStep(t)
    \/ ScriptStep
    \/ UserStep

Spec == Init /\ [][Next]_vars

\* Every transport call returns, the threads are scheduled, a script run that
\* has begun goes on, and the auto-refresh timer reruns the script while
\* ss.connected is set.
FairSpec ==
    /\ Spec
    /\ \A t \in Threads : WF_vars(ThreadStep(t))
    /\ WF_vars(ScriptStep)
    /\ WF_vars(BLE_ScriptRun /\ ss_connected)

\* A transport call may never return: the threads are scheduled only where
\* they sleep, poll the stop event or tear the client down, and a script run
\* that has begun goes on.
FairStop ==
    /\ Spec
    /\ \A t \in Threads : WF_vars(BLE_LoopCheck(t) \/ BLE_PumpExit(t))
    /\ WF_vars(ScriptStep)

(***************************************************************************)
(* Properties of the sessions.                                             *)
(***************************************************************************)
\* The session's thread lost its link, or its subscription failed, after the
\* consumer had read its flag as connected, and Stop was not requested: the
\* thread-side flag is cleared and the thread sleeps before it reconnects.
SessionDropped ==
    /\ ss_connected /\ ss_thread # NoThread
    /\ th_pc[ss_thread] = "backoff" /\ ~th_stop[ss_thread]

\* C2: after a drop in a session the consumer's connected flag becomes false
\* (and true again after the reconnect) with no Stop or Start in between.
C2_StatusFlagFollowsDrop == SessionDropped ~> ~ss_connected

\* C4: at most one reader thread is alive at any time.
C4_AtMostOneReaderAlive == Cardinality({t \in Threads : Alive(t)}) <= 1

C18_ErrorsBecomeVisible ==
    \A t \in Threads :
        (ss_thread = t /\ th_err[t] # "")
            ~> (ss_last_error # "" \/ ss_thread # t \/ th_err[t] = "")

\* C11: the accumulator changes only by the append of the record a drain just
\* took from the channel or by a Start's reset to empty, and every handling of
\* a Start request leaves it empty.
C11_AccumulatorResetByEveryStart ==
    [][/\ all_rows' # all_rows =>
            \/ /\ q_parsed # <<>>
               /\ all_rows' = Append(all_rows, Full(Head(q_parsed)))
            \/ BLE_StartClick /\ all_rows' = <<>>
       /\ BLE_StartClick => all_rows' = <<>>]_vars

(***************************************************************************)
(* SpecReader: one reader thread from its start to its end, with a device  *)
(* that sends, drops the link or fails, and a consumer that may request    *)
(* Stop at any moment.                                                     *)
(***************************************************************************)
AllVariants == {"ble", "ble_final", "stream", "usb_live"}

\* The state when start_reader has called th.start(): the buffers are reset
\* and the first thread runs.
InitReader ==
    /\ variant \in AllVariants
    /\ InitLED
    /\ InitExt
    /\ q_parsed = <<>> /\ data = <<>> /\ all_rows = <<>> /\ decoded = <<>>
    /\ fresh = {}
    /\ t0 = "set"
    /\ cpc = "start_sleep" /\ passes = 0 /\ added = 0 /\ total = 0
    /\ th_pc = [t \in Threads |->
                  IF t = 1 THEN (IF IsBLE THEN "loop" ELSE "open") ELSE "none"]
    /\ th_i = [t \in Threads |-> 0]
    /\ th_stop = [t \in Threads |-> FALSE]
    /\ th_link = [t \in Threads |-> FALSE]
    /\ th_conn = [t \in Threads |-> FALSE]
    /\ th_err = [t \in Threads |-> ""]
    /\ ss_thread = 1 /\ ss_stop_event = 1 /\ launched = 1
    /\ ss_connected = FALSE /\ ss_last_error = ""
    /\ download = NoDownload
    /\ stream = <<>> /\ pos = 0 /\ buffer = <<>> /\ lines = <<>> /\ calls = 0 /\ cuts = {}

\* ss.stop_event.set() of the Stop handlers.
StopRequest ==
    /\ ss_stop_event # NoThread
    /\ ~th_stop[ss_stop_event]
    /\ th_stop' = [th_stop EXCEPT ![ss_stop_event] = TRUE]
    /\ UNCHANGED <<th_pc, th_i, th_link, th_conn, th_err>>
    /\ UNCHANGED <<framerVars, ledVars, extVars, pipeVars, consumerVars, variant>>

\* The steps serial thread t takes by itself.
SerialThreadStep(t) ==
    \/ SER_Open(t)
    \/ SER_LoopExit(t)

\* What the serial device does to thread t.
SerialDeviceStep(t) ==
    \/ SER_Read(t)
    \/ SER_ReadError(t)

NextReader ==
    \/ ThreadStep(1)
    \/ DeviceStep(1)
    \/ SerialThreadStep(1)
    \/ SerialDeviceStep(1)
    \/ StopRequest

SpecReader == InitReader /\ [][NextReader]_vars

\* Every transport call returns and the thread is scheduled.
FairReader ==
    /\ SpecReader
    /\ WF_vars(ThreadStep(1))
    /\ WF_vars(SerialThreadStep(1))

(***************************************************************************)
(* Properties of the reader thread.                                        *)
(***************************************************************************)
\* C1: a BLE reader thread ends only when its stop event is set; the step that
\* ends a backoff sleep is a fresh call of connect_once unless the stop event
\* is set; and a thread that sleeps with the stop event clear does reach that
\* call (or sees the stop event), however many drops and failed cycles
\* preceded it.
C1_ReconnectsUntilStop ==
    /\ [](\A t \in Threads : (IsBLE /\ th_pc[t] = "done") => th_stop[t])
    /\ [][\A t \in Threads :
            (IsBLE /\ th_pc[t] = "backoff" /\ th_pc'[t] # "backoff")
                => IF th_stop[t] THEN th_pc'[t] = "done" ELSE th_pc'[t] = "resolve"]_vars
    /\ \A t \in Threads :
            (IsBLE /\ th_pc[t] = "backoff" /\ ~th_stop[t])
                ~> (th_pc[t] = "resolve" \/ th_stop[t])

\* C1 witness: a BLE thread that had connected, subscribed and delivered a
\* record is, after the drop and the backoff, in connect_once again, with no
\* Stop requested.
C1_Witness ==
    /\ IsBLE /\ th_pc[1] \in {"resolve", "connect"} /\ ~th_stop[1]
    /\ decoded # <<>>

\* C3: a reader thread whose stop event is set ends, and a thread that has
\* ended has its client or port closed and its thread-side flag false.
C3_StopEndsThread ==
    /\ [](\A t \in Threads : th_pc[t] = "done" => (~th_conn[t] /\ ~th_link[t]))
    /\ \A t \in Threads : (th_stop[t] /\ Alive(t)) ~> (th_pc[t] = "done")

\* C3 witness: a thread that was connected and delivered a record has ended
\* after a Stop request, with the flag false and the link closed.
C3_Witness ==
    /\ th_pc[1] = "done" /\ th_stop[1] /\ decoded # <<>>
    /\ ~th_conn[1] /\ ~th_link[1]

\* C16: a BLE reader thread's connected flag is true only while the
\* notification subscription of its current client is established.
C16_FlagOnlyWhenSubscribed ==
    \A t \in Threads : (IsBLE /\ th_conn[t]) => Subscribed(t)

\* C17: connect_once makes at most CONNECT_RETRIES attempts and
\* start_notifications at most NOTIFY_RETRIES; connect_once ends with a
\* connected client or with a non-empty error in the status cell, and a
\* subscription that is given up leaves a non-empty error too.
C17_BoundedRetriesThenError ==
    /\ [](\A t \in Threads :
            /\ (IsBLE /\ th_pc[t] = "connect") => th_i[t] < CONNECT_RETRIES
            /\ (IsBLE /\ th_pc[t] = "notify") => th_i[t] < NOTIFY_RETRIES)
    /\ [][\A t \in Threads :
            /\ (IsBLE /\ th_pc[t] \in {"resolve", "connect"}
                      /\ th_pc'[t] \notin {"resolve", "connect"})
                 => \/ th_pc'[t] = "notify" /\ th_link'[t]
                    \/ th_pc'[t] = "backoff" /\ th_err'[t] # ""
            /\ (IsBLE /\ th_pc[t] = "notify" /\ th_pc'[t] \notin {"notify", "pump"})
                 => th_err'[t] # ""]_vars

\* C17 witness: a thread sleeps after connect_once used up its attempts and
\* stored its error.
C17_Witness ==
    /\ IsBLE /\ th_pc[1] = "backoff" /\ th_err[1] = "Connect failed"

\* C19: once the stop event of a BLE thread is set, the thread begins no
\* further connect attempt and no further subscription attempt.
C19_NoAttemptAfterStop ==
    [][\A t \in Threads :
        (IsBLE /\ th_stop[t] /\ <<th_pc'[t], th_i'[t]>> # <<th_pc[t], th_i[t]>>)
            => th_pc'[t] \notin {"connect", "notify"}]_vars

\* C23: in the serial IMU dashboard a read error in mid-session does not end
\* the session: the reader thread is not left ended by a read error while no
\* Stop was requested (it opens the port again).
C23_ReadErrorReconnects ==
    ~(variant = "stream" /\ th_pc[1] = "done" /\ th_err[1] = "Read error" /\ ~th_stop[1])

\* The positions at which a thread holds no transport: before the open or
\* the connect, between two connect cycles, and after its end.
OffTransport == {"none", "loop", "resolve", "open", "backoff", "done"}

\* The positions of a thread whose function is running or has returned; an
\* exception that left the function would put the thread at "crashed".
ThreadPositions ==
    {"none", "loop", "resolve", "connect", "notify", "pump", "backoff",
     "open", "read", "done"}

\* C22: no failure of a transport operation leaves the thread's loop.  A
\* thread is never ended by an exception; while it holds no transport its
\* connected/open flag is false; and a serial thread that ended without a
\* Stop has stored the failure as its status string.
C22_FailuresStayInThread ==
    \A t \in Threads :
        /\ th_pc[t] \in ThreadPositions
        /\ th_pc[t] \in OffTransport => ~th_conn[t]
        /\ (IsSerial /\ th_pc[t] = "done" /\ ~th_stop[t]) => th_err[t] # ""

\* C22 witness: a serial read failed; the thread has ended with its flag
\* cleared and the error stored.
C22_Witness ==
    /\ IsSerial /\ th_pc[1] = "done" /\ ~th_stop[1]
    /\ th_err[1] # "" /\ ~th_conn[1] /\ decoded # <<>>

(***************************************************************************)
(* SpecLED: the BLE LED controller (controll_LEDs_BLE.py).  The script     *)
(* connects, sends commands with send_and_wait and disconnects; the notify *)
(* callback runs on the manager's event-loop thread at any moment.         *)
(***************************************************************************)
\* The reply the device sends for command k, the sentinel of send_and_wait,
\* and the mark for a call that raised.
Reply(k) == <<"OK", k>>
Sentinel == <<"(no reply)">>
Raised == <<"raised">>

otherVars == <<framerVars, extVars, pipeVars, pumpVars, sessVars>>

\* `if not ble.connected and <address given>`: ble.connect(addr).  _connect
\* makes a new client; connect() raises or leaves it unconnected, or
\* start_notify raises, or both succeed and connected is set.
LED_Connect ==
    /\ led_pc = "idle" /\ ~led_conn
    /\ \/ led_link' = FALSE /\ led_sub' = FALSE /\ led_conn' = FALSE
       \/ led_link' = TRUE /\ led_sub' = FALSE /\ led_conn' = FALSE
       \/ led_link' = TRUE /\ led_sub' = TRUE /\ led_conn' = TRUE
    /\ led_air' = <<>>
    /\ UNCHANGED <<led_pc, led_cmd, led_elapsed, last_reply, led_ret, led_intime>>
    /\ UNCHANGED otherVars

\* The Disconnect button: _disconnect.
LED_Disconnect ==
    /\ led_pc = "idle"
    /\ led_link' = FALSE /\ led_sub' = FALSE /\ led_conn' = FALSE
    /\ led_air' = <<>>
    /\ UNCHANGED <<led_pc, led_cmd, led_elapsed, last_reply, led_ret, led_intime>>
    /\ UNCHANGED otherVars

\* The peer drops the link: nothing of it reaches the manager's fields.
LED_LinkDrop ==
    /\ led_link
    /\ led_link' = FALSE /\ led_sub' = FALSE
    /\ led_air' = <<>>
    /\ UNCHANGED <<led_pc, led_cmd, led_elapsed, last_reply, led_ret, led_intime, led_conn>>
    /\ UNCHANGED otherVars

\* send_and_wait is called: send raises "Not connected", or clears
\* last_reply and writes the command (the write may raise); t0 is taken.
\* The device answers the command it received, or does not.
LED_Send ==
    /\ led_pc = "idle" /\ led_cmd < MaxCmds
    /\ IF ~led_link
       THEN /\ led_ret' = Raised
            /\ UNCHANGED <<led_pc, led_cmd, led_elapsed, last_reply, led_air, led_intime>>
       ELSE /\ last_reply' = NoReply
            /\ led_cmd' = led_cmd + 1
            /\ led_intime' = FALSE
            /\ led_elapsed' = 0
            /\ \/ /\ led_ret' = Raised
                  /\ UNCHANGED <<led_pc, led_air>>
               \/ /\ led_ret' = NoReturn
                  /\ led_pc' = "poll"
                  /\ \/ led_air' = Append(led_air, led_cmd + 1)
                     \/ UNCHANGED led_air
    /\ UNCHANGED <<led_link, led_sub, led_conn>>
    /\ UNCHANGED otherVars

\* `while time.perf_counter() - t0 < timeout_s: if self.last_reply:`; when
\* the time is up the sentinel is returned.
LED_Poll ==
    /\ led_pc = "poll"
    /\ IF led_elapsed < TimeoutTicks
       THEN /\ led_pc' = IF last_reply # NoReply THEN "hit" ELSE "sleep"
            /\ UNCHANGED led_ret
       ELSE /\ led_pc' = "idle"
            /\ led_ret' = Sentinel
    /\ UNCHANGED <<led_cmd, led_elapsed, last_reply, led_air, led_intime,
                   led_link, led_sub, led_conn>>
    /\ UNCHANGED otherVars

\* `return self.last_reply`: the cell is read again and left as it is.
LED_Return ==
    /\ led_pc = "hit"
    /\ led_ret' = last_reply
    /\ led_pc' = "idle"
    /\ UNCHANGED <<led_cmd, led_elapsed, last_reply, led_air, led_intime,
                   led_link, led_sub, led_conn>>
    /\ UNCHANGED otherVars

\* time.sleep(0.02) is over.
LED_Wake ==
    /\ led_pc = "sleep"
    /\ led_elapsed' = led_elapsed + 1
    /\ led_pc' = "poll"
    /\ UNCHANGED <<led_cmd, last_reply, led_ret, led_air, led_intime,
                   led_link, led_sub, led_conn>>
    /\ UNCHANGED otherVars

\* _notify runs for the oldest reply in flight.
LED_Notify ==
    /\ led_air # <<>> /\ led_link /\ led_sub
    /\ last_reply' = Reply(Head(led_air))
    /\ led_air' = Tail(led_air)
    /\ led_intime' = (led_intime \/ (led_pc # "idle" /\ led_elapsed < TimeoutTicks))
    /\ UNCHANGED <<led_pc, led_cmd, led_elapsed, led_ret, led_link, led_sub, led_conn>>
    /\ UNCHANGED otherVars

InitLEDSpec ==
    /\ InitPipe
    /\ InitSession
    /\ InitLED
    /\ InitExt
    /\ variant = "led"
    /\ stream = <<>> /\ pos = 0 /\ buffer = <<>> /\ lines = <<>> /\ calls = 0 /\ cuts = {}

NextLED ==
    \/ LED_Connect
    \/ LED_Disconnect
    \/ LED_LinkDrop
    \/ LED_Send
    \/ LED_Poll
    \/ LED_Return
    \/ LED_Wake
    \/ LED_Notify

SpecLED == InitLEDSpec /\ [][NextLED]_vars

(***************************************************************************)
(* Properties of the command / response exchange.                          *)
(***************************************************************************)
IsReply(r) == Len(r) = 2

\* C13: a reply that send_and_wait returns is the device's reply to the
\* command that this call sent, never the reply to an earlier command.
C13_NoStaleReply == IsReply(led_ret) => led_ret[2] = led_cmd

\* C14: send_and_wait never returns an empty string; it returns the sentinel
\* only when the whole timeout has elapsed and no reply was notified before
\* that; and when a reply was notified in time, it returns a reply.
C14_ReplyInTimeIsReturned ==
    [][(led_pc # "idle" /\ led_pc' = "idle") =>
        /\ led_ret' # NoReply
        /\ led_ret' = Sentinel => (led_elapsed >= TimeoutTicks /\ ~led_intime)
        /\ led_intime => IsReply(led_ret')]_vars

\* C15: when send_and_wait returns a reply, last_reply is empty afterwards.
C15_ReturnConsumesReply ==
    [][(led_pc = "hit" /\ led_pc' = "idle") => last_reply' = NoReply]_vars

(***************************************************************************)
(* SpecDecode: the record decoders.  A frame is a Python str, modelled as  *)
(* the sequence of its characters; a record is a tuple of numbers; None is *)
(* the empty tuple (a record is never empty).                              *)
(***************************************************************************)
NoRecord == <<>>

\* A decoder let an exception out.
DecRaised == <<"raised">>

\* The whitespace of str.strip() and str.split().
Whitespace == {" ", "\t", "\n", "\r"}

\* str.strip(): leading and trailing whitespace is removed.
RECURSIVE LStrip(_)
LStrip(s) == IF s # <<>> /\ Head(s) \in Whitespace THEN LStrip(Tail(s)) ELSE s

RECURSIVE RStrip(_)
RStrip(s) ==
    IF s # <<>> /\ s[Len(s)] \in Whitespace
    THEN RStrip(SubSeq(s, 1, Len(s) - 1)) ELSE s

strip(s) == RStrip(LStrip(s))

\* s.startswith(p)
startswith(s, p) == Len(s) >= Len(p) /\ SubSeq(s, 1, Len(p)) = p

\* c in s, for a one-character c
Contains(s, c) == Find(s, c) # -1

\* s.split(sep) for a one-character sep: always at least one field.
RECURSIVE split(_, _)
split(s, sep) ==
    LET i == Find(s, sep)
    IN  IF i = -1 THEN <<s>>
        ELSE <<SubSeq(s, 1, i)>> \o split(SubSeq(s, i + 2, Len(s)), sep)

\* s.split(): the runs of non-whitespace characters.
RECURSIVE splitws(_)
splitws(s) ==
    LET t == LStrip(s)
        ws == {j \in 1..Len(t) : t[j] \in Whitespace}
        i == CHOOSE j \in ws : \A k \in ws : j <= k
    IN  IF t = <<>> THEN <<>>
        ELSE IF ws = {} THEN <<t>>
        ELSE <<SubSeq(t, 1, i - 1)>> \o splitws(SubSeq(t, i, Len(t)))

\* float(x), for the literals of the model: surrounding whitespace is
\* skipped and an unsigned run of decimal digits is a number; anything else
\* over the model's characters (empty, letters, ',', ':', '#', inner blanks)
\* raises ValueError.
Digits == {"0", "1", "2"}

DigitVal(c) == CASE c = "0" -> 0 [] c = "1" -> 1 [] c = "2" -> 2

IsFloat(x) ==
    LET t == strip(x) IN t # <<>> /\ \A i \in 1..Len(t) : t[i] \in Digits

RECURSIVE DecVal(_)
DecVal(t) ==
    IF t = <<>> THEN 0
    ELSE 10 * DecVal(SubSeq(t, 1, Len(t) - 1)) + DigitVal(t[Len(t)])

float(x) == DecVal(strip(x))

\* tuple(float(x) for x in parts)
Floats(parts) == [i \in 1..Len(parts) |-> float(parts[i])]

AllFloat(parts) == \A i \in 1..Len(parts) : IsFloat(parts[i])

\* parts[:n]
FirstN(parts, n) == SubSeq(parts, 1, IF Len(parts) < n THEN Len(parts) ELSE n)

\* Mutant of Sense_parse_line: further fields are ignored.
Sense_parse_prefix(line) ==
    LET parts == split(strip(line), ",")
    IN  IF Len(parts) < 3 THEN NoRecord
        ELSE IF AllFloat(FirstN(parts, 3)) THEN Floats(FirstN(parts, 3)) ELSE NoRecord

\* Test_BLE_Sense.parse_line
Sense_parse_line(line) ==
    LET parts == split(strip(line), ",")
    IN  IF Len(parts) # 3 THEN NoRecord
        ELSE IF AllFloat(parts) THEN Floats(parts) ELSE NoRecord

\* Mutant of USB_try_parse: the ValueError of float() is not caught.
USB_try_uncaught(line) ==
    LET parts == split(strip(line), ",")
    IN  IF ~AllFloat(parts) THEN DecRaised
        ELSE IF Len(parts) = 3 THEN Floats(parts) ELSE NoRecord

\* xiao_usb.try_parse (CSV_HEADER has 3 names): every field is converted
\* before the count is looked at.
USB_try_parse(line) ==
    LET parts == split(strip(line), ",")
    IN  IF ~AllFloat(parts) THEN NoRecord
        ELSE IF Len(parts) = 3 THEN Floats(parts) ELSE NoRecord

\* xiao_usb_live.try_parse (CSV_HEADER has 7 names)
Live_try_parse(line) ==
    LET s == strip(line)
        parts == split(s, ",")
    IN  IF s = <<>> \/ startswith(s, <<"#">>) THEN NoRecord
        ELSE IF Len(parts) < 7 THEN NoRecord
        ELSE IF AllFloat(FirstN(parts, 7)) THEN Floats(FirstN(parts, 7))
        ELSE NoRecord

EXPECTED_KEYS ==
    << <<"a", "x">>, <<"a", "y">>, <<"a", "z">>,
       <<"g", "x">>, <<"g", "y">>, <<"g", "z">> >>

KeySet == {EXPECTED_KEYS[i] : i \in 1..Len(EXPECTED_KEYS)}

\* The loop `for tok in s.split()` that fills kv: bad is set when it returned
\* None for an unparsable value of an expected key.
RECURSIVE KvLoop(_, _)
KvLoop(toks, kv) ==
    IF toks = <<>> THEN [bad |-> FALSE, kv |-> kv]
    ELSE LET tok == Head(toks)
             i == Find(tok, ":")
             k == SubSeq(tok, 1, i)
             v == SubSeq(tok, i + 2, Len(tok))
         IN  IF i = -1 THEN KvLoop(Tail(toks), kv)
             ELSE IF k \notin KeySet THEN KvLoop(Tail(toks), kv)
             ELSE IF ~IsFloat(v) THEN [bad |-> TRUE, kv |-> kv]
             ELSE KvLoop(Tail(toks),
                         [x \in (DOMAIN kv) \cup {k} |->
                             IF x = k THEN float(v) ELSE kv[x]])

\* Mutant of KvRecord: a key that was not seen counts as 0.
KvRecordDefaults(s) ==
    LET r == KvLoop(splitws(s), <<>>)
    IN  IF r.bad THEN NoRecord
        ELSE <<0>> \o [i \in 1..Len(EXPECTED_KEYS) |->
                          IF EXPECTED_KEYS[i] \in DOMAIN r.kv
                          THEN r.kv[EXPECTED_KEYS[i]] ELSE 0]

\* The key:value shape: (0.0, ax, ay, az, gx, gy, gz) when every expected
\* key was seen.
KvRecord(s) ==
    LET r == KvLoop(splitws(s), <<>>)
    IN  IF r.bad THEN NoRecord
        ELSE IF KeySet \subseteq DOMAIN r.kv
             THEN <<0>> \o [i \in 1..Len(EXPECTED_KEYS) |-> r.kv[EXPECTED_KEYS[i]]]
             ELSE NoRecord

\* xiao_imu_stream.parse_line
Stream_parse_line(line) ==
    LET s == strip(line)
    IN  IF s = <<>> \/ startswith(s, <<"e", "r", "r">>) THEN NoRecord
        ELSE KvRecord(s)

\* xiao_imu_ble.parse_csv_line (the same in xiao_imu_ble_final)
parse_csv_line(line) ==
    LET s == strip(line)
        parts == split(s, ",")
        csv == Contains(s, ",") /\ ~Contains(s, ":") /\ Len(parts) >= 7
    IN  IF s = <<>> \/ startswith(s, <<"#">>) \/ startswith(s, <<"e", "r", "r">>)
        THEN NoRecord
        ELSE IF csv
        THEN (IF AllFloat(FirstN(parts, 7)) THEN Floats(FirstN(parts, 7))
              ELSE NoRecord)
        ELSE IF Contains(s, ":") THEN KvRecord(s)
        ELSE NoRecord

\* sep.join(fields)
RECURSIVE Join(_, _)
Join(fields, sep) ==
    IF fields = <<>> THEN <<>>
    ELSE IF Len(fields) = 1 THEN fields[1]
    ELSE fields[1] \o <<sep>> \o Join(Tail(fields), sep)

\* The frames the decoders are tried on.  Comma-separated frames of 1 to
\* MaxFields3 fields, bare or padded with blanks:
Fields3 == {<<"1">>, <<"2", "0">>, <<"x">>, <<>>}

Frames3 ==
    LET bare == {Join(f, ",") : f \in SeqsUpTo(Fields3, MaxFields3) \ {<<>>}}
    IN  bare \cup {<<" ">> \o b \o <<" ">> : b \in bare}

\* comma-separated frames of up to MaxFields7 fields, a field being a number,
\* not a number, or a key:value token:
Fields7 == {<<"1">>, <<"x">>, <<"a", "x", ":", "2">>}

Frames7 == {Join(f, ",") : f \in SeqsUpTo(Fields7, MaxFields7)}

\* key:value frames: each expected key is given with a number, given with
\* something else, or left out; the frame may begin with a comment mark or
\* with "err", and may give ax once more at its end.
KvToken(i, how) ==
    EXPECTED_KEYS[i] \o (IF how = "good" THEN <<":", "2">> ELSE <<":", "x">>)

RECURSIVE KvTokens(_, _)
KvTokens(c, i) ==
    IF i > Len(EXPECTED_KEYS) THEN <<>>
    ELSE (IF c[i] = "none" THEN <<>> ELSE <<KvToken(i, c[i])>>) \o KvTokens(c, i + 1)

KvPrefixes == {<<>>, <<"#", " ">>, <<"#">>, <<"e", "r", "r", " ">>}

KvSuffixes == {<<>>, <<" ", "a", "x", ":", "1">>, <<" ", "a", "x", ":", "x">>}

FramesKV ==
    {pre \o Join(KvTokens(c, 1), " ") \o suf :
        c \in [1..Len(EXPECTED_KEYS) -> {"good", "bad", "none"}],
        pre \in KvPrefixes, suf \in KvSuffixes}

\* a 7-field frame followed by a blank and a full key:value frame
FramesMixed ==
    {Join([i \in 1..7 |-> <<"1">>], ",") \o <<",", " ">>
        \o Join(KvTokens([i \in 1..6 |-> "good"], 1), " ")}

Frames == Frames3 \cup Frames7 \cup FramesKV \cup FramesMixed \cup {<<" ">>}

Decoders == {"Sense_parse_line", "USB_try_parse", "Live_try_parse",
             "Stream_parse_line", "parse_csv_line"}

\* The decoder named fn is called with the frame.
Decode(fn, out) ==
    /\ dec_fn = "none"
    /\ dec_fn' = fn
    /\ dec_out' = out
    /\ UNCHANGED <<dec_frame, decOthers>>

Dec_Sense == Decode("Sense_parse_line", Sense_parse_line(dec_frame))

Dec_USB == Decode("USB_try_parse", USB_try_parse(dec_frame))

Dec_Live == Decode("Live_try_parse", Live_try_parse(dec_frame))

Dec_Stream == Decode("Stream_parse_line", Stream_parse_line(dec_frame))

Dec_BLE == Decode("parse_csv_line", parse_csv_line(dec_frame))

InitDecode ==
    /\ variant = "decode"
    /\ InitPipe
    /\ InitSession
    /\ InitLED
    /\ stream = <<>> /\ pos = 0 /\ buffer = <<>> /\ lines = <<>> /\ calls = 0 /\ cuts = {}
    /\ dec_frame \in Frames
    /\ dec_fn = "none"
    /\ dec_out = <<"none">>
    /\ ping_pc = "call" /\ ping_line = <<>> /\ ping_fail = FALSE /\ ping_ret = "none"
    /\ sense_queue = <<>> /\ sense_buffer = <<>>
    /\ sense_connected = FALSE /\ sense_sent = 0
    /\ sense_pc = [c \in Sessions |-> "none"] /\ sense_client = NoThread
    /\ cmd_pc = "call" /\ cmd_elapsed = 0 /\ cmd_seen = <<>> /\ cmd_reply = <<>>
    /\ cmd_fail = FALSE /\ cmd_ret = <<"none">>
    /\ log_rows = <<>> /\ logging = FALSE /\ live_thread = "none" /\ live_old = FALSE

NextDecode ==
    \/ Dec_Sense
    \/ Dec_USB
    \/ Dec_Live
    \/ Dec_Stream
    \/ Dec_BLE

SpecDecode == InitDecode /\ [][NextDecode]_vars

(***************************************************************************)
(* Properties of the decoders.                                             *)
(***************************************************************************)
\* The comma-separated fields of the frame as it was received.
RawFields == split(dec_frame, ",")

\* C25: a 3-field decoder returns a record exactly for a frame of exactly 3
\* comma-separated fields that are all numbers, and the record is those 3
\* numbers in order; any other frame yields None.
C25_ThreeFieldDecoder ==
    dec_fn \in {"Sense_parse_line", "USB_try_parse"} =>
        IF Len(RawFields) = 3 /\ \A i \in 1..3 : IsFloat(RawFields[i])
        THEN dec_out = <<float(RawFields[1]), float(RawFields[2]), float(RawFields[3])>>
        ELSE dec_out = NoRecord

\* C25 witness: the padded frame " 1,20,1 " was decoded to (1, 20, 1).
C25_Witness ==
    /\ dec_fn = "USB_try_parse"
    /\ dec_frame = <<" ", "1", ",", "2", "0", ",", "1", " ">>
    /\ dec_out = <<1, 20, 1>>

\* C26: a 7-field positional decoder returns the first 7 fields as numbers
\* for every frame of at least 7 comma-separated fields whose first 7 are
\* numbers, whatever the further fields hold, and for no other
\* comma-separated frame.
C26_SevenFieldDecoder ==
    dec_fn \in {"Live_try_parse", "parse_csv_line"} =>
        LET accepted == /\ Len(RawFields) >= 7
                        /\ \A i \in 1..7 : IsFloat(RawFields[i])
        IN  /\ accepted => dec_out = [i \in 1..7 |-> float(RawFields[i])]
            /\ (~accepted /\ (dec_fn = "Live_try_parse" \/ ~Contains(dec_frame, ":")))
                  => dec_out = NoRecord

\* The values the frame gives for key k: the texts after the first ':' of the
\* blank-separated tokens that begin with k and a ':'.
GivenFor(k) ==
    LET toks == splitws(dec_frame)
    IN  {SubSeq(toks[i], Len(k) + 2, Len(toks[i])) :
            i \in {j \in 1..Len(toks) : startswith(toks[j], k \o <<":">>)}}

\* Every expected key is given, and given only with numbers.
AllKeysGiven ==
    \A k \in KeySet : GivenFor(k) # {} /\ \A v \in GivenFor(k) : IsFloat(v)

\* The record is t = 0 and then a value given for each expected key.
IsKvRecord(rec) ==
    /\ Len(rec) = 7
    /\ rec[1] = 0
    /\ \A i \in 1..6 : \E v \in GivenFor(EXPECTED_KEYS[i]) : IsFloat(v) /\ rec[i + 1] = float(v)

\* The frame, trimmed, begins with the text p.
Begins(p) == startswith(strip(dec_frame), p)

\* C27 as stated: the key:value decoder returns a record exactly when every
\* expected key is given with a number (and none with anything else); the
\* record is then t = 0 and the six values.
C27_KeyValueDecoder ==
    (dec_fn \in {"Stream_parse_line", "parse_csv_line"} /\ Len(RawFields) < 7) =>
        IF AllKeysGiven THEN IsKvRecord(dec_out) ELSE dec_out = NoRecord

\* C27 as amended: the same, for the frames that begin with neither "err" nor
\* '#'; a frame that begins with "err" yields None.
C27_KeyValueDecoderUnlessErr ==
    (dec_fn \in {"Stream_parse_line", "parse_csv_line"} /\ Len(RawFields) < 7) =>
        /\ Begins(<<"e", "r", "r">>) => dec_out = NoRecord
        /\ (~Begins(<<"e", "r", "r">>) /\ ~Begins(<<"#">>)) =>
              IF AllKeysGiven THEN IsKvRecord(dec_out) ELSE dec_out = NoRecord

\* C27 witness: "ax:2 ay:2 az:2 gx:2 gy:2 gz:2 ax:1" was decoded, the later
\* ax standing.
C27_Witness ==
    /\ dec_fn = "Stream_parse_line"
    /\ Len(splitws(dec_frame)) = 7
    /\ splitws(dec_frame)[7] = <<"a", "x", ":", "1">>
    /\ dec_out = <<0, 1, 2, 2, 2, 2, 2>>

\* C28: every IMU decoder yields None for a frame that is empty after
\* trimming or that begins with '#', whatever follows the '#'.
C28_EmptyAndCommentIgnored ==
    (/\ dec_fn \in {"Stream_parse_line", "parse_csv_line", "Live_try_parse"}
     /\ strip(dec_frame) = <<>> \/ Begins(<<"#">>))
        => dec_out = NoRecord

\* The arity of the records of the decoder that was applied.
Arity == IF dec_fn \in {"Sense_parse_line", "USB_try_parse"} THEN 3 ELSE 7

\* C29: decoding is total.  A decoder never raises; it returns None or a
\* complete record of its arity, every value of which is the number of a
\* field of the frame: the first fields of a comma-separated frame, all of
\* them numbers, or t = 0 and a given number for each expected key.
C29_DecodingIsTotal ==
    dec_fn # "none" =>
        /\ Len(dec_out) # Len(DecRaised)
        /\ dec_out # NoRecord =>
              /\ Len(dec_out) = Arity
              /\ \/ /\ Len(RawFields) >= Arity
                    /\ \A i \in 1..Arity :
                          IsFloat(RawFields[i]) /\ dec_out[i] = float(RawFields[i])
                 \/ Arity = 7 /\ IsKvRecord(dec_out)

\* C29 witness: a frame whose third field is not a number was rejected as a
\* whole.
C29_Witness ==
    /\ dec_fn = "USB_try_parse"
    /\ dec_frame = <<"1", ",", "2", "0", ",", "x">>
    /\ dec_out = NoRecord

(***************************************************************************)
(* SpecPing: the liveness probe try_ping of app.py and                     *)
(* controll_LEDs_USB.py.  ping_pc is                                       *)
(*   "call"     try_ping was called                                        *)
(*   "open"     serial.Serial(...) returned the port                       *)
(*   "written"  the buffers were reset and PING was written                *)
(*   "read"     ser.readline() returned                                    *)
(*   "done"     try_ping returned                                          *)
(***************************************************************************)
PONG == <<"P", "O", "N", "G">>
READY == <<"R", "E", "A", "D", "Y">>

\* A byte that is not valid UTF-8 on its own.
BadByte == "\\xff"

\* The texts a device may send in answer, and what readline() may return of
\* one: the text up to and with its newline, or what had arrived at the
\* timeout (nothing, or a line without its newline).
PingWords ==
    {PONG, READY, <<"E", "R", "R">>, <<"O", "K", " ", "D", "7">>,
     <<"P", "O", "N">>, <<"P", "O", BadByte, "N", "G">>}

PingLines ==
    {pre \o w \o post :
        pre \in {<<>>, <<"x">>, <<" ">>},
        w \in PingWords,
        post \in {<<"\n">>, <<"\r", "\n">>, <<>>}}
    \cup {<<>>, <<"\n">>}

\* bytes.decode(errors="ignore"): the bytes that do not decode are left out.
DecodeIgnore(b) == SelectSeq(b, LAMBDA c : c # BadByte)

\* p in s, for texts
InText(p, s) ==
    \E i \in 0..(Len(s) - Len(p)) : SubSeq(s, i + 1, i + Len(p)) = p

\* Mutant of PingRaise: the exception is not caught.
PingPropagates ==
    /\ ping_fail' = TRUE
    /\ ping_ret' = "raised"
    /\ ping_pc' = "done"
    /\ UNCHANGED ping_line

\* An operation on the port raised: `except Exception: return False`.
PingRaise ==
    /\ ping_fail' = TRUE
    /\ ping_ret' = "False"
    /\ ping_pc' = "done"
    /\ UNCHANGED ping_line

\* ("PONG" in line) or ("READY" in line)
PingAnswer(line) ==
    IF InText(PONG, line) \/ InText(READY, line) THEN "True" ELSE "False"

\* serial.Serial(port, ...) opens the port or raises.
Ping_Open ==
    /\ ping_pc = "call"
    /\ \/ ping_pc' = "open" /\ UNCHANGED <<ping_line, ping_fail, ping_ret>>
       \/ PingRaise
    /\ UNCHANGED pingOthers

\* The sleep, the two buffer resets and ser.write(b"PING\n").
Ping_Write ==
    /\ ping_pc = "open"
    /\ \/ ping_pc' = "written" /\ UNCHANGED <<ping_line, ping_fail, ping_ret>>
       \/ PingRaise
    /\ UNCHANGED pingOthers

\* ser.readline() returns a line, or what the timeout left, or raises.
Ping_Readline ==
    /\ ping_pc = "written"
    /\ \/ \E l \in PingLines :
            /\ ping_line' = l
            /\ ping_pc' = "read"
            /\ UNCHANGED <<ping_fail, ping_ret>>
       \/ PingRaise
    /\ UNCHANGED pingOthers

\* The line is decoded and trimmed and the answer returned through the
\* `with`, whose exit closes the port; if the close raises, the except
\* clause returns False instead.
Ping_Return ==
    /\ ping_pc = "read"
    /\ \/ /\ ping_ret' = PingAnswer(strip(DecodeIgnore(ping_line)))
          /\ ping_pc' = "done"
          /\ UNCHANGED <<ping_line, ping_fail>>
       \/ PingRaise
    /\ UNCHANGED pingOthers

InitPing ==
    /\ variant = "ping"
    /\ InitPipe
    /\ InitSession
    /\ InitLED
    /\ InitExt
    /\ stream = <<>> /\ pos = 0 /\ buffer = <<>> /\ lines = <<>> /\ calls = 0 /\ cuts = {}

NextPing ==
    \/ Ping_Open
    \/ Ping_Write
    \/ Ping_Readline
    \/ Ping_Return

SpecPing == InitPing /\ [][NextPing]_vars

(***************************************************************************)
(* Properties of the probe.                                                *)
(***************************************************************************)
\* C30: try_ping always returns a boolean and never raises.  It returns True
\* exactly when no operation on the port failed and the line that was read
\* contains PONG or READY; any other line, a timeout and any failure give
\* False.
C30_PingIsBoolean ==
    /\ ping_ret \in {"none", "True", "False"}
    /\ ping_pc = "done" =>
          /\ ping_ret \in {"True", "False"}
          /\ ping_ret = "True" <=>
                /\ ~ping_fail
                /\ \E w \in {PONG, READY} : InText(w, DecodeIgnore(ping_line))

\* C30 witness: the line "xPONG\r\n" was read and True returned.
C30_Witness ==
    /\ ping_pc = "done"
    /\ ping_line = <<"x">> \o PONG \o <<"\r", "\n">>
    /\ ping_ret = "True"

(***************************************************************************)
(* SpecSense: Test_BLE_Sense.py.  The notification callback runs on the    *)
(* thread of the dashboard's event loop; the script (the consumer)         *)
(* connects, disconnects and displays st.session_state.queue, a            *)
(* deque(maxlen=MAX_POINTS), here of capacity RingMax.                     *)
(***************************************************************************)
\* The texts of the notifications.
SenseChunks ==
    {<<"1", ",", "2", ",">>, <<"0", "\n">>, <<"1", ",", "1", ",", "1", "\n">>,
     <<"x", "\n", "2", ",", "0", ",", "1", "\n">>, <<"1">>}

\* text.splitlines(keepends=False), for texts whose only line boundary is
\* "\n".
RECURSIVE SplitLines(_)
SplitLines(s) ==
    LET i == Find(s, "\n")
    IN  IF s = <<>> THEN <<>>
        ELSE IF i = -1 THEN <<s>>
        ELSE <<SubSeq(s, 1, i)>> \o SplitLines(SubSeq(s, i + 2, Len(s)))

\* for ln in lines: parsed = parse_line(ln); if parsed: queue.append(parsed)
RECURSIVE AppendParsed(_, _)
AppendParsed(q, lns) ==
    IF lns = <<>> THEN q
    ELSE LET parsed == Sense_parse_line(Head(lns))
         IN  AppendParsed(IF parsed # NoRecord THEN RingAppend(q, parsed) ELSE q,
                          Tail(lns))

\* handle_notify(_, data) of connect_and_listen, called for a notification
\* of any client that is subscribed.
Sense_Notify ==
    /\ \E c \in Sessions : sense_pc[c] = "listening"
    /\ sense_sent < MaxChunks
    /\ \E text \in SenseChunks :
          LET b == sense_buffer \o text
              ls == SplitLines(b)
              whole == b[Len(b)] = "\n"
          IN  IF ~Contains(b, "\n")
              THEN sense_buffer' = b /\ UNCHANGED sense_queue
              ELSE /\ sense_buffer' = IF whole THEN <<>> ELSE ls[Len(ls)]
                   /\ sense_queue' =
                         AppendParsed(sense_queue,
                                      IF whole THEN ls ELSE SubSeq(ls, 1, Len(ls) - 1))
    /\ sense_sent' = sense_sent + 1
    /\ UNCHANGED <<sense_connected, sense_pc, sense_client>>
    /\ UNCHANGED senseOthers

\* The session whose client is stored loses its link by client.disconnect().
DisconnectStored ==
    IF sense_client # NoThread /\ sense_pc[sense_client] = "listening"
    THEN [sense_pc EXCEPT ![sense_client] = "closing"]
    ELSE sense_pc

\* The script handles "Quick connect" or "Connect" while not connected: the
\* queue and the buffer are cleared and connect_and_listen is scheduled on
\* the background loop; the script does not wait for it.
Sense_Connect ==
    /\ ~sense_connected
    /\ \E c \in Sessions :
          /\ sense_pc[c] = "none"
          /\ sense_pc' = [sense_pc EXCEPT ![c] = "scheduled"]
    /\ sense_queue' = <<>>
    /\ sense_buffer' = <<>>
    /\ UNCHANGED <<sense_connected, sense_sent, sense_client>>
    /\ UNCHANGED senseOthers

\* connect_and_listen starts: a stored client is disconnected, a new client
\* is made and client.connect() awaited.
Sense_Begin(c) ==
    /\ sense_pc[c] = "scheduled"
    /\ sense_pc' = [DisconnectStored EXCEPT ![c] = "connecting"]
    /\ UNCHANGED <<sense_queue, sense_buffer, sense_connected, sense_sent, sense_client>>
    /\ UNCHANGED senseOthers

\* client.connect() raises into the future of the coroutine; or it returns,
\* the client and the flag are stored, and start_notify subscribes
\* handle_notify or raises.
Sense_Listen(c) ==
    /\ sense_pc[c] = "connecting"
    /\ \/ /\ sense_pc' = [sense_pc EXCEPT ![c] = "none"]
          /\ UNCHANGED <<sense_connected, sense_client>>
       \/ /\ sense_client' = c
          /\ sense_connected' = TRUE
          /\ \E to \in {"listening", "none"} :
                sense_pc' = [sense_pc EXCEPT ![c] = to]
    /\ UNCHANGED <<sense_queue, sense_buffer, sense_sent>>
    /\ UNCHANGED senseOthers

\* The link of a listening session is lost: `while await
\* client.is_connected()` ends.
Sense_LinkLost(c) ==
    /\ sense_pc[c] = "listening"
    /\ sense_pc' = [sense_pc EXCEPT ![c] = "closing"]
    /\ UNCHANGED <<sense_queue, sense_buffer, sense_connected, sense_sent, sense_client>>
    /\ UNCHANGED senseOthers

\* The finally of connect_and_listen: the flag and the stored client are
\* cleared, whoever stored them.
Sense_Finally(c) ==
    /\ sense_pc[c] = "closing"
    /\ sense_pc' = [sense_pc EXCEPT ![c] = "none"]
    /\ sense_connected' = FALSE
    /\ sense_client' = NoThread
    /\ UNCHANGED <<sense_queue, sense_buffer, sense_sent>>
    /\ UNCHANGED senseOthers

\* The script handles "Disconnect" while connected: disconnect_ble
\* disconnects the stored client and clears the flag and the client.
Sense_Disconnect ==
    /\ sense_connected
    /\ sense_pc' = DisconnectStored
    /\ sense_connected' = FALSE
    /\ sense_client' = NoThread
    /\ UNCHANGED <<sense_queue, sense_buffer, sense_sent>>
    /\ UNCHANGED senseOthers

InitSense ==
    /\ variant = "sense"
    /\ InitPipe
    /\ InitSession
    /\ InitLED
    /\ InitExt
    /\ stream = <<>> /\ pos = 0 /\ buffer = <<>> /\ lines = <<>> /\ calls = 0 /\ cuts = {}

NextSense ==
    \/ Sense_Notify
    \/ Sense_Connect
    \/ Sense_Disconnect
    \/ \E c \in Sessions :
          \/ Sense_Begin(c)
          \/ Sense_Listen(c)
          \/ Sense_LinkLost(c)
          \/ Sense_Finally(c)

SpecSense == InitSense /\ [][NextSense]_vars

\* C21: the transport side never mutates the ring or the accumulator: every
\* step that changes the displayed deque is a step of the consumer (the
\* script).
C21_OnlyConsumerWritesRing ==
    [][sense_queue' # sense_queue => Sense_Connect]_vars

(***************************************************************************)
(* send_cmd of the serial LED controllers (app.py, controll_LEDs_USB.py):  *)
(* the port is opened, the command written, and lines are read for 1.2 s.  *)
(* SpecCmd runs it next to the BLE manager's send_and_wait.                *)
(***************************************************************************)
\* The wait window of send_cmd, in reads: a read that returns a line takes
\* one unit, a read that times out (timeout=2.0) outlasts the window.
CmdWindow == 3

\* What ser.readline() may return while send_cmd waits.
CmdLines ==
    {<<>>, <<"\n">>, <<" ", "\r", "\n">>, <<BadByte, "\n">>,
     <<"O", "K", "\n">>, <<" ", "O", "K", " ", "D", "7", "\r", "\n">>,
     <<"E", BadByte, "R", "R", "\n">>, <<"O", "K">>}

\* `(error: ...)`, the text send_cmd returns for an exception.
CmdError == <<"(error)">>

\* Mutant of CmdResult: `return reply`.
CmdResultRaw(reply) == reply

\* `return reply or "(no reply)"`
CmdResult(reply) == IF reply # <<>> THEN reply ELSE Sentinel

\* `except Exception as e: return f"(error: {e})"`
CmdRaise ==
    /\ cmd_fail' = TRUE
    /\ cmd_ret' = CmdError
    /\ cmd_pc' = "done"
    /\ UNCHANGED <<cmd_elapsed, cmd_seen, cmd_reply>>

\* serial.Serial(port, ...) opens the port or raises.
Cmd_Open ==
    /\ cmd_pc = "call"
    /\ \/ cmd_pc' = "open" /\ UNCHANGED <<cmd_elapsed, cmd_seen, cmd_reply, cmd_fail, cmd_ret>>
       \/ CmdRaise
    /\ UNCHANGED cmdOthers

\* The sleep, the two buffer resets, the write of the command; t_end is
\* taken and reply starts empty.
Cmd_Write ==
    /\ cmd_pc = "open"
    /\ \/ /\ cmd_pc' = "loop"
          /\ cmd_elapsed' = 0
          /\ cmd_reply' = <<>>
          /\ UNCHANGED <<cmd_seen, cmd_fail, cmd_ret>>
       \/ CmdRaise
    /\ UNCHANGED cmdOthers

\* One pass of `while time.time() < t_end`: the line read is decoded and
\* trimmed; a non-empty one becomes the reply and ends the loop.
Cmd_Readline ==
    /\ cmd_pc = "loop"
    /\ cmd_reply = <<>>
    /\ cmd_elapsed < CmdWindow
    /\ \/ \E l \in CmdLines :
            LET line == strip(DecodeIgnore(l)) IN
            /\ cmd_seen' = Append(cmd_seen, l)
            /\ cmd_reply' = line
            /\ cmd_elapsed' = IF l = <<>> THEN CmdWindow ELSE cmd_elapsed + 1
            /\ UNCHANGED <<cmd_pc, cmd_fail, cmd_ret>>
       \/ CmdRaise
    /\ UNCHANGED cmdOthers

\* The loop is over: the result is returned through the `with`, whose exit
\* closes the port; if the close raises, the except clause returns instead.
Cmd_Return ==
    /\ cmd_pc = "loop"
    /\ cmd_reply # <<>> \/ cmd_elapsed >= CmdWindow
    /\ \/ /\ cmd_ret' = CmdResult(cmd_reply)
          /\ cmd_pc' = "done"
          /\ UNCHANGED <<cmd_elapsed, cmd_seen, cmd_reply, cmd_fail>>
       \/ CmdRaise
    /\ UNCHANGED cmdOthers

InitCmd ==
    /\ variant = "cmd"
    /\ InitPipe
    /\ InitSession
    /\ InitLED
    /\ InitExt
    /\ stream = <<>> /\ pos = 0 /\ buffer = <<>> /\ lines = <<>> /\ calls = 0 /\ cuts = {}

NextCmd ==
    \/ Cmd_Open
    \/ Cmd_Write
    \/ Cmd_Readline
    \/ Cmd_Return
    \/ LED_Connect
    \/ LED_Disconnect
    \/ LED_LinkDrop
    \/ LED_Send
    \/ LED_Poll
    \/ LED_Return
    \/ LED_Wake
    \/ LED_Notify

SpecCmd == InitCmd /\ [][NextCmd]_vars

\* The first line of seen that is not empty once decoded and trimmed, or the
\* empty text.
RECURSIVE FirstReply(_)
FirstReply(seen) ==
    IF seen = <<>> THEN <<>>
    ELSE IF strip(DecodeIgnore(Head(seen))) # <<>>
         THEN strip(DecodeIgnore(Head(seen)))
         ELSE FirstReply(Tail(seen))

C32_StopClearsAccumulator ==
    [][(PipeStop /\ download' # NoDownload) => all_rows' = <<>>]_vars

\* C33: pump_queue_into_buffers never blocks and is bounded: while it runs
\* one of its steps can always be taken and at most `repeat` passes remain;
\* a record leaves the queue only by being appended to both the ring and the
\* accumulator, and is counted; a further pass starts only after a pass that
\* moved something, with one pass fewer to go; a pass that moved nothing
\* ends the call; and the call returns the count of the records it moved.
C33_PumpBounded ==
    /\ [](cpc \in {"pump", "start_pump"} =>
            /\ passes \in 1..3
            /\ ENABLED (PumpGet \/ PumpPassEnd))
    /\ [][/\ Len(q_parsed') < Len(q_parsed) =>
               /\ cpc \in {"pump", "start_pump"}
               /\ q_parsed' = Tail(q_parsed)
               /\ all_rows' = Append(all_rows, Full(Head(q_parsed)))
               /\ data' = RingAppend(data, Full(Head(q_parsed)))
               /\ total' + added' = total + added + 1
               /\ passes' = passes
          /\ (cpc' = cpc /\ passes' # passes) =>
               /\ q_parsed = <<>> /\ added > 0
               /\ passes' = passes - 1
               /\ added' = 0 /\ total' = total + added
          /\ (cpc \in {"pump", "start_pump"} /\ added = 0 /\ pumpVars' # pumpVars
                /\ q_parsed = <<>>) =>
               cpc' # cpc
          /\ (cpc = "pump" /\ cpc' = "idle") =>
               /\ q_parsed = <<>>
               /\ added = 0 \/ passes = 1
               /\ total' = total + added]_vars

\* C33 witness: a pump has returned after moving two records.
C33_Witness == cpc = "idle" /\ total = 2 /\ Len(all_rows) = 2 /\ q_parsed = <<>>

\* C34: in the BLE IMU dashboards, whenever a reader thread is alive and the
\* script has rendered its buttons, the Stop control is enabled (ss.connected
\* is true): a live reader can always be stopped.
C34_LiveReaderCanBeStopped ==
    (IsBLE /\ cpc = "idle" /\ \E t \in Threads : Alive(t)) => ss_connected

\* C35: every record in the accumulator after a Start was decoded by the
\* reader thread which that Start launched: what a previous session left in
\* q_parsed, or what a previous thread pushes after its Stop, never enters
\* the new session.
C35_AccumulatorOfThisSession ==
    \A i \in 1..Len(all_rows) : all_rows[i].v \in fresh

\* C36: every frame the BLE reader thread hands to the decoder is a line
\* received within a single connection: when a notification completes the
\* frame whose beginning is in the buffer, no reconnect fell between the
\* first buffered byte and the notification.
C36_FrameWithinOneConnection ==
    [][(lines' # lines /\ buffer # <<>>) =>
          \A c \in cuts : ~(pos - Len(buffer) < c /\ c <= pos)]_vars

\* C37: from the moment Stop has built the CSV until the next Start, the
\* number of data rows of the CSV equals the length of the accumulator: no
\* record is appended to the accumulator after the export was built.
C37_ExportMatchesAccumulator ==
    download # NoDownload => Len(download) = Len(all_rows) + 1

\* C38: in the BLE LED controller, whenever BLEManager.connected is true the
\* link is up (so that send does not fail with "Not connected"): a drop by
\* the peer makes connected false.
C38_ConnectedMeansLinkUp == led_conn => led_link

\* C39: in Test_BLE_Sense.py at most one connect_and_listen session is
\* active at a time, and no two notification handlers are subscribed at once.
C39_OneSessionAtATime ==
    /\ Cardinality({c \in Sessions : sense_pc[c] # "none"}) <= 1
    /\ Cardinality({c \in Sessions : sense_pc[c] = "listening"}) <= 1

(***************************************************************************)
(* SpecLive: xiao_usb_live.py.  Every script run handles the widgets, then *)
(* starts the reader if the Start toggle is on and no reader is alive and  *)
(* drains the queues, or stops the reader if the toggle is off.            *)
(***************************************************************************)
Clicks == {"none", "clear", "reset"}

\* A reader thread decodes the device's next sample and pushes it.
Live_Push ==
    /\ live_thread = "alive" \/ live_old
    /\ Len(decoded) < MaxRecs
    /\ PushParsed(Sample(Len(decoded) + 1, TRUE), launched)
    /\ UNCHANGED <<data, all_rows, t0, pumpVars, liveVars, liveOthers>>

\* reader_thread_fn returns: the stop event was seen, or the port raised.
Live_ThreadEnd ==
    /\ \/ live_thread = "alive" /\ live_thread' = "dead" /\ UNCHANGED live_old
       \/ live_old /\ live_old' = FALSE /\ UNCHANGED live_thread
    /\ UNCHANGED <<log_rows, logging, pipeVars, pumpVars, liveOthers>>

\* One script run up to its pump or its st.stop(): "Clear live data", the
\* Logging toggle and "Reset log" are handled; with the Start toggle on (and
\* a port) start_reader runs when no reader is alive, clearing the ring, and
\* the pump follows; with it off stop_reader sets the event and joins for
\* 1.5 s, and drops the references.
Live_Run(start, log, click) ==
    /\ cpc = "idle"
    /\ logging' = log
    /\ log_rows' = IF click = "reset" THEN <<>> ELSE log_rows
    /\ IF start
       THEN /\ data' = IF click = "clear" \/ live_thread # "alive" THEN <<>> ELSE data
            /\ live_thread' = "alive"
            /\ cpc' = "pump"
            /\ UNCHANGED live_old
       ELSE /\ data' = IF click = "clear" THEN <<>> ELSE data
            /\ live_thread' = "none"
            /\ IF live_thread = "alive"
               THEN live_old' \in {live_old, TRUE}
               ELSE UNCHANGED live_old
            /\ UNCHANGED cpc
    /\ UNCHANGED <<q_parsed, all_rows, t0, decoded, fresh, passes, added, total, liveOthers>>

\* Mutant of Live_PumpGet: the row is logged whatever the toggle says.
Live_PumpGetAlwaysLogs ==
    /\ cpc = "pump"
    /\ q_parsed # <<>>
    /\ q_parsed' = Tail(q_parsed)
    /\ data' = RingAppend(data, Head(q_parsed))
    /\ log_rows' = Append(log_rows, Head(q_parsed))
    /\ UNCHANGED <<logging, live_thread, live_old>>
    /\ UNCHANGED <<all_rows, t0, decoded, fresh, pumpVars, liveOthers>>

\* pump_queues: get_nowait() returned a row; it goes to the ring, and to the
\* log when logging is on.
Live_PumpGet ==
    /\ cpc = "pump"
    /\ q_parsed # <<>>
    /\ q_parsed' = Tail(q_parsed)
    /\ data' = RingAppend(data, Head(q_parsed))
    /\ log_rows' = IF logging THEN Append(log_rows, Head(q_parsed)) ELSE log_rows
    /\ UNCHANGED <<logging, live_thread, live_old>>
    /\ UNCHANGED <<all_rows, t0, decoded, fresh, pumpVars, liveOthers>>

\* pump_queues: get_nowait() raised queue.Empty; the script run ends.
Live_PumpEnd ==
    /\ cpc = "pump"
    /\ q_parsed = <<>>
    /\ cpc' = "idle"
    /\ UNCHANGED <<passes, added, total, pipeVars, liveVars, liveOthers>>

InitLive ==
    /\ variant = "usb_live"
    /\ InitPipe
    /\ InitSession
    /\ InitLED
    /\ InitExt
    /\ stream = <<>> /\ pos = 0 /\ buffer = <<>> /\ lines = <<>> /\ calls = 0 /\ cuts = {}

NextLive ==
    \/ Live_Push
    \/ Live_ThreadEnd
    \/ \E start \in BOOLEAN, log \in BOOLEAN, click \in Clicks : Live_Run(start, log, click)
    \/ Live_PumpGet
    \/ Live_PumpEnd

SpecLive == InitLive /\ [][NextLive]_vars

\* C40: in xiao_usb_live.py the log is kept across reader restarts: a script
\* run without a click on "Reset log" leaves log_rows as it was, whether it
\* starts or stops the reader; a drained record is appended to the log
\* exactly when logging is on at that time; the log changes in no other way
\* than by such an append or by being emptied by "Reset log"; and the live
\* ring is empty after every start of a reader.
C40_LogSurvivesRestarts ==
    [][/\ \A start \in BOOLEAN, log \in BOOLEAN, click \in Clicks \ {"reset"} :
            Live_Run(start, log, click) => log_rows' = log_rows
       /\ Len(q_parsed') < Len(q_parsed) =>
            /\ data' = RingAppend(data, Head(q_parsed))
            /\ log_rows' = IF logging THEN Append(log_rows, Head(q_parsed))
                           ELSE log_rows
       /\ log_rows' # log_rows =>
            \/ /\ cpc = "pump" /\ logging /\ q_parsed # <<>>
               /\ log_rows' = Append(log_rows, Head(q_parsed))
            \/ /\ log_rows' = <<>>
               /\ \E start \in BOOLEAN, log \in BOOLEAN : Live_Run(start, log, "reset")
       /\ (live_thread # "alive" /\ live_thread' = "alive") => data' = <<>>]_vars

\* C40 witness: a reader was stopped and a new one started, and the log still
\* holds rows while the ring has just been cleared.
C40_Witness ==
    /\ live_old /\ live_thread = "alive" /\ cpc = "pump"
    /\ log_rows # <<>> /\ data = <<>>

====
